---- MODULE Spec2Model ----
(***************************************************************************)
(* The hierarchical task store of task-tracker-mcp: Task (tasks.py),       *)
(* TaskTree (tree.py) and the two storage backends InMemoryDatabase and    *)
(* MongoDatabase (database.py).                                            *)
(*                                                                         *)
(* Python objects are modelled by addresses.  A TaskTree value carries its *)
(* own heap `nodes` (a sequence of Task records, the address of a Task is  *)
(* its position), the address `root` and the dict `index` (id -> address). *)
(* An optional Python value is None (the empty tuple) or Some(v).  uuid4() *)
(* and Mongo's ObjectId generation are modelled by counters that never     *)
(* repeat a value; strings are modelled by small sets of strings or, for   *)
(* ids, by numbers (0 is a string that no generator ever returns).         *)
(***************************************************************************)
EXTENDS Naturals, Sequences, FiniteSets, TLC

VARIABLES
    backend,        \* which BaseDatabase the store instance is: "memory" | "mongo"
    trees,          \* InMemoryDatabase.trees : tree_id -> TaskTree
    tree_counter,   \* InMemoryDatabase.tree_counter
    docs,           \* MongoDatabase.trees (the collection): _id -> [name, tree]
    next_oid,       \* the next ObjectId the collection hands out
    next_uuid,      \* the next value uuid4() returns
    n_updates,      \* update calls made so far (bounded by MaxUpdates)
    n_closes,       \* close calls made so far (bounded by MaxCloses)
    returned,       \* history: the ids create_task has returned, with their call
    last,           \* the last call made: operation, arguments, outcome
    procs,          \* the calls running concurrently: coroutine -> its position
    created         \* history: the tree ids create_tree has returned, with the names

vars == <<backend, trees, tree_counter, docs, next_oid, next_uuid,
          n_updates, n_closes, returned, last, procs,
          created>>

-----------------------------------------------------------------------------
(* Bounds of the model *)

MaxTrees == 1
MaxTasks == 3
MaxUpdates == 1
MaxCloses == 1
MaxCreated == 4
MaxCalls == 3
MaxForest == 2

-----------------------------------------------------------------------------
(* Python values *)

None == <<>>
Some(v) == <<v>>

\* schemas.py: class TaskStatus(str, Enum)
StatusValues == {"todo", "in_progress", "done", "cancelled"}

\* A member of the enum TaskStatus, and a plain str carrying the same text.
TaskStatus(s) == [cls |-> "TaskStatus", value |-> s]
Str(s) == [cls |-> "str", value |-> s]

\* TaskStatus is a str subclass: a member compares equal to the str of its value.
PyEq(s1, s2) == s1.value = s2.value

\* The attributes of a Task instance that are dataclass fields.
TaskFields == {"description", "dod", "status", "id", "parent", "subtasks",
               "close_reason", "deadline", "assignee"}

\* Fields that hold an optional value; the others hold the value itself.
OptionalFields == {"parent", "close_reason", "deadline", "assignee"}

\* tasks.py: the dataclass constructor Task(description, dod, ...).
Task(description, dod, id, parent, deadline, assignee) ==
    [description  |-> description,
     dod          |-> dod,
     status       |-> TaskStatus("todo"),
     id           |-> id,
     parent       |-> parent,
     subtasks     |-> <<>>,
     close_reason |-> None,
     deadline     |-> deadline,
     assignee     |-> assignee]

-----------------------------------------------------------------------------
(* Walking a task graph the way the recursive methods of Task and TaskTree *)
(* do: depth first, children in list order.  A node met again on the       *)
(* current path means the recursion never ends: Python raises              *)
(* RecursionError, after having visited `seq`.                             *)

RECURSIVE Visit(_, _, _)
RECURSIVE VisitKids(_, _, _, _, _)

Visit(nodes, a, path) ==
    IF a \in path
    THEN [seq |-> <<>>, raised |-> TRUE]
    ELSE VisitKids(nodes, nodes[a].subtasks, 1, path \cup {a}, <<a>>)

VisitKids(nodes, kids, i, path, acc) ==
    IF i > Len(kids)
    THEN [seq |-> acc, raised |-> FALSE]
    ELSE LET r == Visit(nodes, kids[i], path)
         IN  IF r.raised
             THEN [seq |-> acc \o r.seq, raised |-> TRUE]
             ELSE VisitKids(nodes, kids, i + 1, path, acc \o r.seq)

\* The addresses reachable from a through subtasks lists (a included).
RECURSIVE ReachFrom(_, _, _)
ReachFrom(nodes, frontier, seen) ==
    IF frontier = {} THEN seen
    ELSE LET more == UNION {{nodes[a].subtasks[i] : i \in 1..Len(nodes[a].subtasks)}
                              : a \in frontier}
         IN  ReachFrom(nodes, more \ (seen \cup frontier), seen \cup frontier)

Reachable(nodes, a) == ReachFrom(nodes, {a}, {})

-----------------------------------------------------------------------------
(* TaskTree *)

\* dict assignment d[k] = v
DictSet(d, k, v) == [x \in DOMAIN d \cup {k} |-> IF x = k THEN v ELSE d[x]]

\* dict.pop(k, None)
DictPop(d, k) == [x \in DOMAIN d \ {k} |-> d[x]]

EmptyDict == [x \in {} |-> 0]

RECURSIVE IndexFold(_, _, _, _)
IndexFold(index, nodes, seq, i) ==
    IF i > Len(seq) THEN index
    ELSE IndexFold(DictSet(index, nodes[seq[i]].id, seq[i]), nodes, seq, i + 1)

\* tree.py: TaskTree._rebuild_index(node): index[node.id] = node, then the
\* same for every subtask.  Returns the index and whether the recursion raised.
RebuildIndex(index, nodes, a) ==
    LET w == Visit(nodes, a, {})
    IN  [index |-> IndexFold(index, nodes, w.seq, 1), raised |-> w.raised]

\* tree.py: TaskTree.__init__(root)
NewTaskTree(nodes, root) ==
    [nodes |-> nodes, root |-> root,
     index |-> RebuildIndex(EmptyDict, nodes, root).index]

\* tree.py: TaskTree.get(task_id): self._index.get(task_id)
TreeGet(tree, task_id) ==
    IF task_id \in DOMAIN tree.index THEN Some(tree.index[task_id]) ELSE None

\* tasks.py: Task.add_subtask, on the node at address p; the child is the
\* new object at address Len(nodes) + 1.
\* A variant of Task.add_subtask that does not hand the assignee on.
TaskAddSubtaskNoAssignee(nodes, p, desc, dod, deadline, assignee, uuid) ==
    Append([nodes EXCEPT ![p].subtasks = Append(@, Len(nodes) + 1)],
           [description |-> desc, dod |-> dod,
            status |-> [cls |-> "TaskStatus", value |-> "todo"],
            id |-> uuid, parent |-> Some(p), subtasks |-> <<>>,
            close_reason |-> None, deadline |-> deadline, assignee |-> None])

TaskAddSubtask(nodes, p, desc, dod, deadline, assignee, uuid) ==
    Append([nodes EXCEPT ![p].subtasks = Append(@, Len(nodes) + 1)],
           Task(desc, dod, uuid, Some(p), deadline, assignee))

\* A variant of add_subtask that attaches the new node and leaves the index
\* as it was.
TreeAddSubtaskNoIndex(tree, parent_id, desc, dod, deadline, assignee, uuid) ==
    LET parent == TreeGet(tree, parent_id)
    IN  IF parent = None
        THEN [exc |-> "KeyError", names |-> "parent", tree |-> tree]
        ELSE [exc |-> "None", names |-> "",
              tree |-> [tree EXCEPT
                  !.nodes = TaskAddSubtask(tree.nodes, parent[1], desc, dod,
                                           deadline, assignee, uuid)]]

\* tree.py: TaskTree.add_subtask
TreeAddSubtask(tree, parent_id, desc, dod, deadline, assignee, uuid) ==
    LET parent == TreeGet(tree, parent_id)
    IN  IF parent = None
        THEN [exc |-> "KeyError", names |-> "parent", tree |-> tree]
        ELSE [exc |-> "None", names |-> "",
              tree |-> [tree EXCEPT
                  !.nodes = TaskAddSubtask(tree.nodes, parent[1], desc, dod,
                                           deadline, assignee, uuid),
                  !.index = DictSet(@, uuid, Len(tree.nodes) + 1)]]

\* A variant of Task.close that sets the status and forgets the reason.
TaskCloseStatusOnly(nodes, a, status, reason) ==
    IF ~(\E s \in {"done", "cancelled"} : PyEq(status, [cls |-> "TaskStatus", value |-> s]))
    THEN [exc |-> "ValueError", nodes |-> nodes]
    ELSE [exc |-> "None", nodes |-> [nodes EXCEPT ![a].status = status]]

\* tasks.py: Task.close, on the node at address a.  `in` compares with ==.
TaskClose(nodes, a, status, reason) ==
    IF ~(\E s \in {"done", "cancelled"} : PyEq(status, TaskStatus(s)))
    THEN [exc |-> "ValueError", nodes |-> nodes]
    ELSE [exc |-> "None",
          nodes |-> [nodes EXCEPT ![a].status = status,
                                  ![a].close_reason = reason]]

\* A variant of TaskTree.close that raises KeyError when the id is not in the
\* index.
TreeCloseRaises(tree, task_id, status, reason) ==
    LET task == TreeGet(tree, task_id)
    IN  IF task = None
        THEN [exc |-> "KeyError", names |-> "task", tree |-> tree]
        ELSE LET r == TaskClose(tree.nodes, task[1], status, reason)
             IN  [exc |-> r.exc, names |-> "",
                  tree |-> [tree EXCEPT !.nodes = r.nodes]]

\* tree.py: TaskTree.close: nothing happens when the id is not in the index.
TreeClose(tree, task_id, status, reason) ==
    LET task == TreeGet(tree, task_id)
    IN  IF task = None
        THEN [exc |-> "None", names |-> "", tree |-> tree]
        ELSE LET r == TaskClose(tree.nodes, task[1], status, reason)
             IN  [exc |-> r.exc, names |-> "",
                  tree |-> [tree EXCEPT !.nodes = r.nodes]]

\* Whether Task.update assigns kwargs[f]: hasattr(self, f) and value is not None.
Assigns(kwargs, f) ==
    f \in DOMAIN kwargs /\ f \in TaskFields /\ kwargs[f] # None

\* A variant of Task.update that replaces the node's optional scalar fields:
\* one that is not given is reset to None.
TaskUpdateReplaces(nodes, a, kwargs) ==
    [nodes EXCEPT ![a] =
        [f \in TaskFields |->
            IF Assigns(kwargs, f)
            THEN IF f \in OptionalFields THEN kwargs[f] ELSE kwargs[f][1]
            ELSE IF f \in {"close_reason", "deadline", "assignee"}
                 THEN None
                 ELSE nodes[a][f]]]

\* A variant of Task.update that puts a status through the check of close:
\* a status other than done or cancelled is not assigned.
TaskUpdateChecksStatus(nodes, a, kwargs) ==
    [nodes EXCEPT ![a] =
        [f \in TaskFields |->
            IF /\ Assigns(kwargs, f)
               /\ f = "status" => kwargs[f][1].value \in {"done", "cancelled"}
            THEN IF f \in OptionalFields THEN kwargs[f] ELSE kwargs[f][1]
            ELSE nodes[a][f]]]

\* tasks.py: Task.update(**kwargs), on the node at address a.
TaskUpdate(nodes, a, kwargs) ==
    [nodes EXCEPT ![a] =
        [f \in TaskFields |->
            IF Assigns(kwargs, f)
            THEN IF f \in OptionalFields THEN kwargs[f] ELSE kwargs[f][1]
            ELSE nodes[a][f]]]

\* tree.py: TaskTree.update: Task.update, then the index is cleared and
\* rebuilt from the root.
\* A variant of TaskTree.update that returns after self._index.clear().
TreeUpdateCleared(tree, task_id, kwargs) ==
    LET task == TreeGet(tree, task_id)
    IN  IF task = None
        THEN [exc |-> "KeyError", names |-> "task", tree |-> tree]
        ELSE [exc |-> "None", names |-> "",
              tree |-> [tree EXCEPT
                  !.nodes = TaskUpdate(tree.nodes, task[1], kwargs),
                  !.index = EmptyDict]]

TreeUpdate(tree, task_id, kwargs) ==
    LET task == TreeGet(tree, task_id)
    IN  IF task = None
        THEN [exc |-> "KeyError", names |-> "task", tree |-> tree]
        ELSE LET nodes2 == TaskUpdate(tree.nodes, task[1], kwargs)
                 r == RebuildIndex(EmptyDict, nodes2, tree.root)
             IN  [exc |-> IF r.raised THEN "RecursionError" ELSE "None",
                  names |-> "",
                  tree |-> [tree EXCEPT !.nodes = nodes2, !.index = r.index]]

-----------------------------------------------------------------------------
(* Serialization *)

\* What Task.to_dict raises on the node at address a: self.status.value is
\* an AttributeError when status holds a plain str; an endless recursion is
\* a RecursionError.
ToDictExc(nodes, a) ==
    LET w == Visit(nodes, a, {})
    IN  IF \E i \in 1..Len(w.seq) : nodes[w.seq[i]].status.cls # "TaskStatus"
        THEN "AttributeError"
        ELSE IF w.raised THEN "RecursionError" ELSE "None"

\* tasks.py: Task.to_dict (where it raises nothing).
RECURSIVE ToDict(_, _)
ToDict(nodes, a) ==
    [id           |-> nodes[a].id,
     description  |-> nodes[a].description,
     dod          |-> nodes[a].dod,
     status       |-> nodes[a].status.value,
     close_reason |-> nodes[a].close_reason,
     subtasks     |-> [i \in 1..Len(nodes[a].subtasks) |->
                          ToDict(nodes, nodes[a].subtasks[i])],
     deadline     |-> nodes[a].deadline,
     assignee     |-> nodes[a].assignee]

\* tasks.py: Task.from_dict(data, parent): the Task is constructed first (at
\* the next free address), then its subtasks, each with parent=task.
RECURSIVE FromDict(_, _, _)
RECURSIVE FromDictKids(_, _, _, _, _)

\* A variant of Task.from_dict that does not read close_reason.
FromDictNoReason(data, parent, nodes) ==
    LET a == Len(nodes) + 1
        task == [description  |-> data.description,
                 dod          |-> data.dod,
                 status       |-> TaskStatus(data.status),
                 id           |-> data.id,
                 parent       |-> parent,
                 subtasks     |-> <<>>,
                 close_reason |-> None,
                 deadline     |-> data.deadline,
                 assignee     |-> data.assignee]
        r == FromDictKids(data.subtasks, 1, a, Append(nodes, task), <<>>)
    IN  [nodes |-> [r.nodes EXCEPT ![a].subtasks = r.kids], addr |-> a]

FromDict(data, parent, nodes) ==
    LET a == Len(nodes) + 1
        task == [description  |-> data.description,
                 dod          |-> data.dod,
                 status       |-> TaskStatus(data.status),
                 id           |-> data.id,
                 parent       |-> parent,
                 subtasks     |-> <<>>,
                 close_reason |-> data.close_reason,
                 deadline     |-> data.deadline,
                 assignee     |-> data.assignee]
        r == FromDictKids(data.subtasks, 1, a, Append(nodes, task), <<>>)
    IN  [nodes |-> [r.nodes EXCEPT ![a].subtasks = r.kids], addr |-> a]

\* A variant of the subtasks comprehension of Task.from_dict that passes no
\* parent.
FromDictKidsNoParent(kids, i, parent, nodes, acc) ==
    IF i > Len(kids)
    THEN [nodes |-> nodes, kids |-> acc]
    ELSE LET c == FromDict(kids[i], None, nodes)
         IN  FromDictKids(kids, i + 1, parent, c.nodes, Append(acc, c.addr))

FromDictKids(kids, i, parent, nodes, acc) ==
    IF i > Len(kids)
    THEN [nodes |-> nodes, kids |-> acc]
    ELSE LET c == FromDict(kids[i], Some(parent), nodes)
         IN  FromDictKids(kids, i + 1, parent, c.nodes, Append(acc, c.addr))

\* tree.py: TaskTree.from_dict(data)
TreeFromDict(data) ==
    LET r == FromDict(data, None, <<>>)
    IN  NewTaskTree(r.nodes, r.addr)

\* tree.py: TaskTree.to_dict
TreeToDict(tree) == ToDict(tree.nodes, tree.root)

-----------------------------------------------------------------------------
(* What callers pass *)

\* The ids a caller passes: any id handed out so far, or 0 (another string).
TreeIdInputs == 0..(IF backend = "memory" THEN tree_counter ELSE next_oid - 1)
TaskIdInputs == 0..(next_uuid - 1)

\* update(**kwargs): one keyword per field, a keyword given as None, a
\* keyword that is no attribute of Task.
FieldKwargs ==
    {[description |-> Some("X")], [dod |-> Some("Y")], [assignee |-> Some("u")],
     [deadline |-> Some(1)], [close_reason |-> Some("r")],
     [description |-> None, assignee |-> Some("u")],
     [dod |-> None], [priority |-> Some("high")],
     [description |-> Some("X"), dod |-> Some("Y"), status |-> Some(Str("done"))]}
    \cup {[status |-> Some(TaskStatus(s))] : s \in StatusValues}
    \cup {[status |-> Some(Str("done"))]}

\* id=<an id of the tree, or another string>
IdKwargs(tree) == {[id |-> Some(i)] : i \in DOMAIN tree.index \cup {0}}

\* subtasks=[], subtasks=[t] with t a Task of the tree (address a) or a Task
\* the caller constructs for the call (written 0 until it is constructed).
SubtasksKwargs(tree) ==
    {[subtasks |-> Some(<<>>)]}
    \cup {[subtasks |-> Some(<<a>>)] : a \in 0..Len(tree.nodes)}

\* parent=t with t a Task of the tree.
ParentKwargs(tree) == {[parent |-> Some(a)] : a \in 1..Len(tree.nodes)}

UsesFresh(kwargs) ==
    /\ "subtasks" \in DOMAIN kwargs
    /\ kwargs.subtasks # None
    /\ \E i \in 1..Len(kwargs.subtasks[1]) : kwargs.subtasks[1][i] = 0

\* The caller's Task("n", "d") is constructed (a new object, a new uuid) and
\* takes the place of 0 in kwargs.
Construct(tree, kwargs, uuid) ==
    IF ~UsesFresh(kwargs) THEN [tree |-> tree, kwargs |-> kwargs]
    ELSE LET a == Len(tree.nodes) + 1
         IN  [tree |-> [tree EXCEPT
                  !.nodes = Append(@, Task("n", "d", uuid, None, None, None))],
              kwargs |-> [kwargs EXCEPT
                  !.subtasks = Some([i \in 1..Len(kwargs.subtasks[1]) |->
                      IF kwargs.subtasks[1][i] = 0 THEN a
                      ELSE kwargs.subtasks[1][i]])]]

NoArgs == [none |-> TRUE]
NoRet == [none |-> TRUE]

Call(op, tree_id, task_id, args, exc, names, ret) ==
    [op |-> op, tree_id |-> tree_id, task_id |-> task_id, args |-> args,
     exc |-> exc, names |-> names, ret |-> ret]

\* A coroutine of the event loop: `pc` is where it stands ("idle": not yet
\* called; "suspended", "loaded", "deleted": at an await; "done": returned
\* or raised), `pending` the coroutines that stood at an await when it was
\* called, `tree` the TaskTree object it holds in a local variable.
Procs == 1..MaxCalls
IdleProc ==
    [pc |-> "idle", op |-> "", tree_id |-> 0, task_id |-> 0, args |-> NoArgs,
     pending |-> {}, tree |-> None, exc |-> "None", names |-> "", ret |-> NoRet]
NoProcs == [p \in Procs |-> IdleProc]

-----------------------------------------------------------------------------
(* InMemoryDatabase.  Every method awaits asyncio.sleep(0) first and then  *)
(* runs to its end without another await: one step per call.               *)

\* The dataclass __eq__ of Task (task == tree.root): the same object, or
\* objects whose fields are equal; parent and subtasks are compared here by
\* identity of the objects they hold.
TaskEq(nodes, a, b) == a = b \/ nodes[a] = nodes[b]

\* A variant of the removal that moves the last subtask into the place of the
\* one removed.
RemoveFromParentSwap(tree, p, task_id) ==
    LET subs == tree.nodes[p].subtasks
        n == Len(subs)
        Hit(i) == tree.nodes[subs[i]].id = task_id
    IN  IF \E i \in 1..n : Hit(i)
        THEN LET k == CHOOSE i \in 1..n : Hit(i)
             IN  [tree EXCEPT
                     !.nodes[p].subtasks =
                         [i \in 1..(n - 1) |-> IF i = k THEN subs[n] ELSE subs[i]],
                     !.index = DictPop(@, task_id)]
        ELSE [tree EXCEPT !.index = DictPop(@, task_id)]

\* database.py 117-118: parent.subtasks = [st for st in parent.subtasks
\* if st.id != task_id]; tree._index.pop(task_id, None)
RemoveFromParent(tree, p, task_id) ==
    LET Keep(st) == tree.nodes[st].id # task_id
    IN  [tree EXCEPT !.nodes[p].subtasks = SelectSeq(@, Keep),
                     !.index = DictPop(@, task_id)]

\* A variant of delete_task that empties the store when a root is deleted.
MemDeleteTaskOpClears(trs, tree_id, task_id) ==
    IF tree_id \notin DOMAIN trs
    THEN [exc |-> "KeyError", names |-> "tree", trees |-> trs]
    ELSE LET tree == trs[tree_id]
             task == TreeGet(tree, task_id)
         IN  IF task = None
             THEN [exc |-> "KeyError", names |-> "task", trees |-> trs]
             ELSE LET parent == tree.nodes[task[1]].parent
                  IN  [exc |-> "None", names |-> "",
                       trees |->
                         IF parent # None
                         THEN [trs EXCEPT ![tree_id] =
                                  RemoveFromParent(tree, parent[1], task_id)]
                         ELSE IF TaskEq(tree.nodes, task[1], tree.root)
                              THEN EmptyDict
                              ELSE trs]

\* database.py: InMemoryDatabase.delete_task
MemDeleteTaskOp(trs, tree_id, task_id) ==
    IF tree_id \notin DOMAIN trs
    THEN [exc |-> "KeyError", names |-> "tree", trees |-> trs]
    ELSE LET tree == trs[tree_id]
             task == TreeGet(tree, task_id)
         IN  IF task = None
             THEN [exc |-> "KeyError", names |-> "task", trees |-> trs]
             ELSE LET parent == tree.nodes[task[1]].parent
                  IN  [exc |-> "None", names |-> "",
                       trees |->
                         IF parent # None
                         THEN [trs EXCEPT ![tree_id] =
                                  RemoveFromParent(tree, parent[1], task_id)]
                         ELSE IF TaskEq(tree.nodes, task[1], tree.root)
                              THEN DictPop(trs, tree_id)
                              ELSE trs]

\* A variant of create_task that attaches the new task to the root when the
\* parent id is not in the index.
MemCreateTaskOpDefaultRoot(trs, tree_id, parent_id, desc, dod, deadline, assignee, uuid) ==
    IF tree_id \notin DOMAIN trs
    THEN [exc |-> "KeyError", names |-> "tree", trees |-> trs]
    ELSE LET tree == trs[tree_id]
             parent == TreeGet(tree, parent_id)
             p == IF parent = None THEN tree.root ELSE parent[1]
         IN  [exc |-> "None", names |-> "",
              trees |-> [trs EXCEPT ![tree_id] =
                  [tree EXCEPT
                      !.nodes = TaskAddSubtask(tree.nodes, p, desc, dod,
                                               deadline, assignee, uuid),
                      !.index = DictSet(@, uuid, Len(tree.nodes) + 1)]]]

\* database.py: InMemoryDatabase.create_task
MemCreateTaskOp(trs, tree_id, parent_id, desc, dod, deadline, assignee, uuid) ==
    IF tree_id \notin DOMAIN trs
    THEN [exc |-> "KeyError", names |-> "tree", trees |-> trs]
    ELSE IF TreeGet(trs[tree_id], parent_id) = None
         THEN [exc |-> "KeyError", names |-> "parent", trees |-> trs]
         ELSE LET r == TreeAddSubtask(trs[tree_id], parent_id, desc, dod,
                                      deadline, assignee, uuid)
              IN  [exc |-> r.exc, names |-> r.names,
                   trees |-> [trs EXCEPT ![tree_id] = r.tree]]

\* database.py: InMemoryDatabase.get_task
MemGetTaskOp(trs, tree_id, task_id) ==
    IF tree_id \notin DOMAIN trs
    THEN [exc |-> "KeyError", names |-> "tree", ret |-> NoRet]
    ELSE LET tree == trs[tree_id]
             task == TreeGet(tree, task_id)
         IN  IF task = None
             THEN [exc |-> "KeyError", names |-> "task", ret |-> NoRet]
             ELSE IF ToDictExc(tree.nodes, task[1]) # "None"
                  THEN [exc |-> ToDictExc(tree.nodes, task[1]), names |-> "",
                        ret |-> NoRet]
                  ELSE [exc |-> "None", names |-> "",
                        ret |-> [task |-> ToDict(tree.nodes, task[1])]]

\* database.py: InMemoryDatabase.update_task
MemUpdateTaskOp(trs, tree_id, task_id, kwargs) ==
    IF tree_id \notin DOMAIN trs
    THEN [exc |-> "KeyError", names |-> "tree", trees |-> trs]
    ELSE IF TreeGet(trs[tree_id], task_id) = None
         THEN [exc |-> "KeyError", names |-> "task", trees |-> trs]
         ELSE LET r == TreeUpdate(trs[tree_id], task_id, kwargs)
              IN  [exc |-> r.exc, names |-> r.names,
                   trees |-> [trs EXCEPT ![tree_id] = r.tree]]

MemCreateTree(name, max) ==
    /\ backend = "memory"
    /\ tree_counter < MaxTrees
    /\ next_uuid <= max
    /\ tree_counter' = tree_counter + 1
    /\ trees' = DictSet(trees, tree_counter + 1,
                    NewTaskTree(<<Task(name, "Root", next_uuid, None, None, None)>>, 1))
    /\ next_uuid' = next_uuid + 1
    /\ last' = Call("create_tree", tree_counter + 1, 0, [name |-> name],
                    "None", "", [id |-> tree_counter + 1])
    /\ created' = Append(created, [id |-> tree_counter + 1, name |-> name])
    /\ UNCHANGED <<procs, backend, docs, next_oid, n_updates, n_closes, returned>>

MemDeleteTree(tree_id) ==
    /\ backend = "memory"
    /\ IF tree_id \notin DOMAIN trees
       THEN /\ last' = Call("delete_tree", tree_id, 0, NoArgs, "KeyError", "tree", NoRet)
            /\ trees' = trees
       ELSE /\ last' = Call("delete_tree", tree_id, 0, NoArgs, "None", "", NoRet)
            /\ trees' = DictPop(trees, tree_id)
    /\ UNCHANGED <<created, procs, backend, tree_counter, docs, next_oid, next_uuid,
                   n_updates, n_closes, returned>>

\* The ids of a dict in the order of their insertion (counters only grow).
RECURSIVE SortedKeys(_)
SortedKeys(S) ==
    IF S = {} THEN <<>>
    ELSE LET m == CHOOSE x \in S : \A y \in S : x <= y
         IN  <<m>> \o SortedKeys(S \ {m})

MemListTrees ==
    /\ backend = "memory"
    /\ last' = Call("list_trees", 0, 0, NoArgs, "None", "",
                    [trees |-> [i \in 1..Cardinality(DOMAIN trees) |->
                        LET tid == SortedKeys(DOMAIN trees)[i]
                        IN  [id |-> tid,
                             name |-> trees[tid].nodes[trees[tid].root].description]]])
    /\ UNCHANGED <<created, procs, backend, trees, tree_counter, docs, next_oid, next_uuid,
                   n_updates, n_closes, returned>>

MemCreateTask(tree_id, parent_id, max) ==
    /\ backend = "memory"
    /\ next_uuid <= max
    /\ LET r == MemCreateTaskOp(trees, tree_id, parent_id, "a", "d", None, None,
                                next_uuid)
       IN  /\ trees' = r.trees
           /\ IF r.exc = "None"
              THEN /\ next_uuid' = next_uuid + 1
                   /\ returned' = returned \cup
                        {[tree_id |-> tree_id, id |-> next_uuid,
                          parent_id |-> parent_id]}
                   /\ last' = Call("create_task", tree_id, parent_id, NoArgs,
                                   "None", "", [id |-> next_uuid])
              ELSE /\ UNCHANGED <<next_uuid, returned>>
                   /\ last' = Call("create_task", tree_id, parent_id, NoArgs,
                                   r.exc, r.names, NoRet)
    /\ UNCHANGED <<created, procs, backend, tree_counter, docs, next_oid, n_updates, n_closes>>

\* A variant of get_task that takes the task it returns out of the index.
MemGetTaskTakes(tree_id, task_id) ==
    /\ backend = "memory"
    /\ LET r == MemGetTaskOp(trees, tree_id, task_id)
       IN  /\ last' = Call("get_task", tree_id, task_id, NoArgs, r.exc, r.names, r.ret)
           /\ trees' = IF r.exc = "None"
                       THEN [trees EXCEPT ![tree_id].index = DictPop(@, task_id)]
                       ELSE trees
    /\ UNCHANGED <<created, procs, backend, tree_counter, docs, next_oid, next_uuid,
                   n_updates, n_closes, returned>>

MemGetTask(tree_id, task_id) ==
    /\ backend = "memory"
    /\ LET r == MemGetTaskOp(trees, tree_id, task_id)
       IN  last' = Call("get_task", tree_id, task_id, NoArgs, r.exc, r.names, r.ret)
    /\ UNCHANGED <<created, procs, backend, trees, tree_counter, docs, next_oid, next_uuid,
                   n_updates, n_closes, returned>>

MemUpdateTask(tree_id, task_id) ==
    /\ backend = "memory"
    /\ n_updates < MaxUpdates
    /\ n_updates' = n_updates + 1
    /\ IF MemUpdateTaskOp(trees, tree_id, task_id,
                          [description |-> Some("X")]).exc = "KeyError"
       THEN LET r == MemUpdateTaskOp(trees, tree_id, task_id,
                                     [description |-> Some("X")])
            IN  /\ last' = Call("update_task", tree_id, task_id,
                                [kwargs |-> [description |-> Some("X")]],
                                r.exc, r.names, NoRet)
                /\ UNCHANGED <<trees, next_uuid>>
       ELSE \E kw \in FieldKwargs \cup IdKwargs(trees[tree_id])
                      \cup SubtasksKwargs(trees[tree_id])
                      \cup ParentKwargs(trees[tree_id]) :
              /\ UsesFresh(kw) => next_uuid <= MaxTasks
              /\ LET c == Construct(trees[tree_id], kw, next_uuid)
                     r == MemUpdateTaskOp([trees EXCEPT ![tree_id] = c.tree],
                                          tree_id, task_id, c.kwargs)
                 IN  /\ trees' = r.trees
                     /\ next_uuid' = IF UsesFresh(kw)
                                     THEN next_uuid + 1 ELSE next_uuid
                     /\ last' = Call("update_task", tree_id, task_id,
                                     [kwargs |-> c.kwargs], r.exc, r.names, NoRet)
    /\ UNCHANGED <<created, procs, backend, tree_counter, docs, next_oid, n_closes, returned>>

MemDeleteTask(tree_id, task_id) ==
    /\ backend = "memory"
    /\ LET r == MemDeleteTaskOp(trees, tree_id, task_id)
       IN  /\ trees' = r.trees
           /\ last' = Call("delete_task", tree_id, task_id, NoArgs,
                           r.exc, r.names, NoRet)
    /\ UNCHANGED <<created, procs, backend, tree_counter, docs, next_oid, next_uuid,
                   n_updates, n_closes, returned>>

\* TaskTree.close called on a tree the backend holds.
MemClose(tree_id, task_id, status, reason) ==
    /\ backend = "memory"
    /\ tree_id \in DOMAIN trees
    /\ n_closes < MaxCloses
    /\ n_closes' = n_closes + 1
    /\ LET r == TreeClose(trees[tree_id], task_id, status, reason)
       IN  /\ trees' = [trees EXCEPT ![tree_id] = r.tree]
           /\ last' = Call("close", tree_id, task_id,
                           [status |-> status, reason |-> reason],
                           r.exc, r.names, NoRet)
    /\ UNCHANGED <<created, procs, backend, tree_counter, docs, next_oid, next_uuid,
                   n_updates, returned>>

-----------------------------------------------------------------------------
(* MongoDatabase.  The collection maps an ObjectId to a document           *)
(* {name, tree}; a single caller runs each method from its first await to  *)
(* its return.  Tree ids that are well-formed ObjectId strings are the     *)
(* numbers from 1; 0 is a string that is no ObjectId.                      *)

\* bson: ObjectId(s) raises InvalidId unless s is a 24-character hex string.
ObjectIdExc(tree_id) == IF tree_id = 0 THEN "InvalidId" ELSE "None"

\* database.py: MongoDatabase._load_tree
MongoLoadTree(ds, tree_id) ==
    IF ObjectIdExc(tree_id) # "None"
    THEN [exc |-> ObjectIdExc(tree_id), names |-> ""]
    ELSE IF tree_id \notin DOMAIN ds
         THEN [exc |-> "KeyError", names |-> "tree"]
         ELSE [exc |-> "None", names |-> "", tree |-> TreeFromDict(ds[tree_id].tree)]

\* A variant of _save_tree that matches the document and writes nothing.
MongoSaveTreeKeeps(ds, tree_id, tree) ==
    IF ToDictExc(tree.nodes, tree.root) # "None"
    THEN [exc |-> ToDictExc(tree.nodes, tree.root), names |-> "", docs |-> ds]
    ELSE IF tree_id \notin DOMAIN ds
         THEN [exc |-> "KeyError", names |-> "tree", docs |-> ds]
         ELSE [exc |-> "None", names |-> "", docs |-> ds]

\* database.py: MongoDatabase._save_tree; tree.to_dict() is evaluated before
\* update_one is called.
MongoSaveTree(ds, tree_id, tree) ==
    IF ToDictExc(tree.nodes, tree.root) # "None"
    THEN [exc |-> ToDictExc(tree.nodes, tree.root), names |-> "", docs |-> ds]
    ELSE IF tree_id \notin DOMAIN ds
         THEN [exc |-> "KeyError", names |-> "tree", docs |-> ds]
         ELSE [exc |-> "None", names |-> "",
               docs |-> [ds EXCEPT ![tree_id].tree = TreeToDict(tree)]]

\* database.py: MongoDatabase.delete_tree
MongoDeleteTreeOp(ds, tree_id) ==
    IF ObjectIdExc(tree_id) # "None"
    THEN [exc |-> ObjectIdExc(tree_id), names |-> "", docs |-> ds]
    ELSE IF tree_id \notin DOMAIN ds
         THEN [exc |-> "KeyError", names |-> "tree", docs |-> ds]
         ELSE [exc |-> "None", names |-> "", docs |-> DictPop(ds, tree_id)]

\* database.py: MongoDatabase.create_task
MongoCreateTaskOp(ds, tree_id, parent_id, desc, dod, deadline, assignee, uuid) ==
    LET l == MongoLoadTree(ds, tree_id)
    IN  IF l.exc # "None"
        THEN [exc |-> l.exc, names |-> l.names, docs |-> ds]
        ELSE IF TreeGet(l.tree, parent_id) = None
             THEN [exc |-> "KeyError", names |-> "parent", docs |-> ds]
             ELSE MongoSaveTree(ds, tree_id,
                      TreeAddSubtask(l.tree, parent_id, desc, dod, deadline,
                                     assignee, uuid).tree)

\* database.py: MongoDatabase.get_task
MongoGetTaskOp(ds, tree_id, task_id) ==
    LET l == MongoLoadTree(ds, tree_id)
    IN  IF l.exc # "None"
        THEN [exc |-> l.exc, names |-> l.names, ret |-> NoRet]
        ELSE LET task == TreeGet(l.tree, task_id)
             IN  IF task = None
                 THEN [exc |-> "KeyError", names |-> "task", ret |-> NoRet]
                 ELSE IF ToDictExc(l.tree.nodes, task[1]) # "None"
                      THEN [exc |-> ToDictExc(l.tree.nodes, task[1]),
                            names |-> "", ret |-> NoRet]
                      ELSE [exc |-> "None", names |-> "",
                            ret |-> [task |-> ToDict(l.tree.nodes, task[1])]]

\* database.py: MongoDatabase.update_task; `construct` builds the Task
\* objects the caller passes in kwargs.
MongoUpdateTaskOp(ds, tree_id, task_id, kwargs, uuid) ==
    LET l == MongoLoadTree(ds, tree_id)
    IN  IF l.exc # "None"
        THEN [exc |-> l.exc, names |-> l.names, docs |-> ds]
        ELSE IF TreeGet(l.tree, task_id) = None
             THEN [exc |-> "KeyError", names |-> "task", docs |-> ds]
             ELSE LET c == Construct(l.tree, kwargs, uuid)
                      r == TreeUpdate(c.tree, task_id, c.kwargs)
                  IN  IF r.exc # "None"
                      THEN [exc |-> r.exc, names |-> r.names, docs |-> ds]
                      ELSE MongoSaveTree(ds, tree_id, r.tree)

\* database.py: MongoDatabase.delete_task: after delete_tree the tree is
\* saved all the same.
MongoDeleteTaskOp(ds, tree_id, task_id) ==
    LET l == MongoLoadTree(ds, tree_id)
    IN  IF l.exc # "None"
        THEN [exc |-> l.exc, names |-> l.names, docs |-> ds]
        ELSE LET task == TreeGet(l.tree, task_id)
             IN  IF task = None
                 THEN [exc |-> "KeyError", names |-> "task", docs |-> ds]
                 ELSE LET parent == l.tree.nodes[task[1]].parent
                      IN  IF parent # None
                          THEN MongoSaveTree(ds, tree_id,
                                   RemoveFromParent(l.tree, parent[1], task_id))
                          ELSE IF TaskEq(l.tree.nodes, task[1], l.tree.root)
                               THEN LET d == MongoDeleteTreeOp(ds, tree_id)
                                    IN  IF d.exc # "None" THEN d
                                        ELSE MongoSaveTree(d.docs, tree_id, l.tree)
                               ELSE MongoSaveTree(ds, tree_id, l.tree)

MongoCreateTree(name, max) ==
    /\ backend = "mongo"
    /\ next_oid <= MaxTrees
    /\ next_uuid <= max
    /\ docs' = DictSet(docs, next_oid,
                 [name |-> name,
                  tree |-> TreeToDict(NewTaskTree(
                      <<Task(name, "Root", next_uuid, None, None, None)>>, 1))])
    /\ next_oid' = next_oid + 1
    /\ next_uuid' = next_uuid + 1
    /\ last' = Call("create_tree", next_oid, 0, [name |-> name], "None", "",
                    [id |-> next_oid])
    /\ created' = Append(created, [id |-> next_oid, name |-> name])
    /\ UNCHANGED <<procs, backend, trees, tree_counter, n_updates, n_closes, returned>>

MongoDeleteTree(tree_id) ==
    /\ backend = "mongo"
    /\ LET r == MongoDeleteTreeOp(docs, tree_id)
       IN  /\ docs' = r.docs
           /\ last' = Call("delete_tree", tree_id, 0, NoArgs, r.exc, r.names, NoRet)
    /\ UNCHANGED <<created, procs, backend, trees, tree_counter, next_oid, next_uuid,
                   n_updates, n_closes, returned>>

MongoListTrees ==
    /\ backend = "mongo"
    /\ last' = Call("list_trees", 0, 0, NoArgs, "None", "",
                    [trees |-> [i \in 1..Cardinality(DOMAIN docs) |->
                        LET tid == SortedKeys(DOMAIN docs)[i]
                        IN  [id |-> tid, name |-> docs[tid].name]]])
    /\ UNCHANGED <<created, procs, backend, trees, tree_counter, docs, next_oid, next_uuid,
                   n_updates, n_closes, returned>>

MongoCreateTask(tree_id, parent_id, max) ==
    /\ backend = "mongo"
    /\ next_uuid <= max
    /\ LET r == MongoCreateTaskOp(docs, tree_id, parent_id, "a", "d", None, None,
                                  next_uuid)
       IN  /\ docs' = r.docs
           /\ IF r.exc = "None"
              THEN /\ next_uuid' = next_uuid + 1
                   /\ returned' = returned \cup
                        {[tree_id |-> tree_id, id |-> next_uuid,
                          parent_id |-> parent_id]}
                   /\ last' = Call("create_task", tree_id, parent_id, NoArgs,
                                   "None", "", [id |-> next_uuid])
              ELSE /\ UNCHANGED <<next_uuid, returned>>
                   /\ last' = Call("create_task", tree_id, parent_id, NoArgs,
                                   r.exc, r.names, NoRet)
    /\ UNCHANGED <<created, procs, backend, trees, tree_counter, next_oid, n_updates, n_closes>>

MongoGetTask(tree_id, task_id) ==
    /\ backend = "mongo"
    /\ LET r == MongoGetTaskOp(docs, tree_id, task_id)
       IN  last' = Call("get_task", tree_id, task_id, NoArgs, r.exc, r.names, r.ret)
    /\ UNCHANGED <<created, procs, backend, trees, tree_counter, docs, next_oid, next_uuid,
                   n_updates, n_closes, returned>>

\* The caller holds no Task of the stored tree: the Tasks it passes are its own.
MongoKwargs(tree) ==
    FieldKwargs \cup IdKwargs(tree)
    \cup {[subtasks |-> Some(<<>>)], [subtasks |-> Some(<<0>>)]}

MongoUpdateTask(tree_id, task_id) ==
    /\ backend = "mongo"
    /\ n_updates < MaxUpdates
    /\ n_updates' = n_updates + 1
    /\ IF MongoUpdateTaskOp(docs, tree_id, task_id,
                            [description |-> Some("X")], next_uuid).exc
             \in {"KeyError", "InvalidId"}
       THEN LET r == MongoUpdateTaskOp(docs, tree_id, task_id,
                                       [description |-> Some("X")], next_uuid)
            IN  /\ last' = Call("update_task", tree_id, task_id,
                                [kwargs |-> [description |-> Some("X")]],
                                r.exc, r.names, NoRet)
                /\ UNCHANGED <<docs, next_uuid>>
       ELSE \E kw \in MongoKwargs(MongoLoadTree(docs, tree_id).tree) :
              /\ UsesFresh(kw) => next_uuid <= MaxTasks
              /\ LET r == MongoUpdateTaskOp(docs, tree_id, task_id, kw, next_uuid)
                 IN  /\ docs' = r.docs
                     /\ next_uuid' = IF UsesFresh(kw) /\ r.exc = "None"
                                     THEN next_uuid + 1 ELSE next_uuid
                     /\ last' = Call("update_task", tree_id, task_id,
                                     [kwargs |-> kw], r.exc, r.names, NoRet)
    /\ UNCHANGED <<created, procs, backend, trees, tree_counter, next_oid, n_closes, returned>>

MongoDeleteTask(tree_id, task_id) ==
    /\ backend = "mongo"
    /\ LET r == MongoDeleteTaskOp(docs, tree_id, task_id)
       IN  /\ docs' = r.docs
           /\ last' = Call("delete_task", tree_id, task_id, NoArgs,
                           r.exc, r.names, NoRet)
    /\ UNCHANGED <<created, procs, backend, trees, tree_counter, next_oid, next_uuid,
                   n_updates, n_closes, returned>>

CloseStatuses == {TaskStatus(s) : s \in StatusValues}
CloseReasons == {None, Some("shipped")}

Init ==
    /\ backend \in {"memory", "mongo"}
    /\ trees = EmptyDict
    /\ tree_counter = 0
    /\ docs = EmptyDict
    /\ next_oid = 1
    /\ next_uuid = 1
    /\ n_updates = 0
    /\ n_closes = 0
    /\ returned = {}
    /\ last = Call("init", 0, 0, NoArgs, "None", "", NoRet)
    /\ procs = NoProcs
    /\ created = <<>>

MemNext ==
    \/ MemCreateTree("T", MaxTasks)
    \/ MemListTrees
    \/ \E t \in TreeIdInputs : MemDeleteTree(t)
    \/ \E t \in TreeIdInputs, i \in TaskIdInputs : MemCreateTask(t, i, MaxTasks)
    \/ \E t \in TreeIdInputs, i \in TaskIdInputs : MemGetTask(t, i)
    \/ \E t \in TreeIdInputs, i \in TaskIdInputs : MemUpdateTask(t, i)
    \/ \E t \in TreeIdInputs, i \in TaskIdInputs : MemDeleteTask(t, i)
    \/ \E t \in TreeIdInputs, i \in TaskIdInputs, s \in CloseStatuses,
          r \in CloseReasons : MemClose(t, i, s, r)

MongoNext ==
    \/ MongoCreateTree("T", MaxTasks)
    \/ MongoListTrees
    \/ \E t \in TreeIdInputs : MongoDeleteTree(t)
    \/ \E t \in TreeIdInputs, i \in TaskIdInputs : MongoCreateTask(t, i, MaxTasks)
    \/ \E t \in TreeIdInputs, i \in TaskIdInputs : MongoGetTask(t, i)
    \/ \E t \in TreeIdInputs, i \in TaskIdInputs : MongoUpdateTask(t, i)
    \/ \E t \in TreeIdInputs, i \in TaskIdInputs : MongoDeleteTask(t, i)

Next == MemNext \/ MongoNext

Spec == Init /\ [][Next]_vars

\* Only create_tree, create_task and get_task are called.
NextCreate ==
    \/ MemCreateTree("T", MaxCreated)
    \/ \E t \in TreeIdInputs, i \in TaskIdInputs : MemCreateTask(t, i, MaxCreated)
    \/ \E t \in TreeIdInputs, i \in TaskIdInputs : MemGetTask(t, i)
    \/ MongoCreateTree("T", MaxCreated)
    \/ \E t \in TreeIdInputs, i \in TaskIdInputs : MongoCreateTask(t, i, MaxCreated)
    \/ \E t \in TreeIdInputs, i \in TaskIdInputs : MongoGetTask(t, i)

SpecCreate == Init /\ [][NextCreate]_vars

-----------------------------------------------------------------------------
(* Trees that only grow and shrink: create_task and delete_task of both     *)
(* backends, and TaskTree.add_subtask called on a tree of the volatile one. *)

\* What add_subtask is called with: (desc, dod, deadline, assignee).
AddSubtaskInputs ==
    {<<"a", "d", None, None>>, <<"b", "e", Some(1), Some("u")>>}

\* db.trees[tree_id].add_subtask(parent_id, desc, dod, deadline, assignee)
MemAddSubtask(tree_id, parent_id, in) ==
    /\ backend = "memory"
    /\ tree_id \in DOMAIN trees
    /\ next_uuid <= MaxCreated
    /\ LET r == TreeAddSubtask(trees[tree_id], parent_id, in[1], in[2], in[3],
                               in[4], next_uuid)
           args == [desc |-> in[1], dod |-> in[2], deadline |-> in[3],
                    assignee |-> in[4]]
       IN  /\ trees' = [trees EXCEPT ![tree_id] = r.tree]
           /\ next_uuid' = IF r.exc = "None" THEN next_uuid + 1 ELSE next_uuid
           /\ last' = Call("add_subtask", tree_id, parent_id, args, r.exc, r.names,
                           IF r.exc = "None" THEN [id |-> next_uuid] ELSE NoRet)
    /\ UNCHANGED <<created, procs, backend, tree_counter, docs, next_oid, n_updates, n_closes,
                   returned>>

NextCreateDelete ==
    \/ MemCreateTree("T", MaxCreated)
    \/ MongoCreateTree("T", MaxCreated)
    \/ \E t \in TreeIdInputs, i \in TaskIdInputs : MemCreateTask(t, i, MaxCreated)
    \/ \E t \in TreeIdInputs, i \in TaskIdInputs : MongoCreateTask(t, i, MaxCreated)
    \/ \E t \in TreeIdInputs, i \in TaskIdInputs, in \in AddSubtaskInputs :
          MemAddSubtask(t, i, in)
    \/ \E t \in TreeIdInputs, i \in TaskIdInputs : MemDeleteTask(t, i)
    \/ \E t \in TreeIdInputs, i \in TaskIdInputs : MongoDeleteTask(t, i)

SpecCreateDelete == Init /\ [][NextCreateDelete]_vars

-----------------------------------------------------------------------------
(* One caller issuing the same calls on an InMemoryDatabase (trees) and on  *)
(* a MongoDatabase (docs).  The n-th tree id of one store stands for the    *)
(* n-th tree id of the other, and both draw the same uuids.                 *)

\* What a call shows its caller: the exception class and the value returned.
Outcome(exc, ret) == [exc |-> exc, ret |-> ret]

\* Tree ids of the right form: the ids handed out, and one not handed out yet.
BothTreeIds == 1..next_oid

InitBoth ==
    /\ backend = "both"
    /\ trees = EmptyDict
    /\ tree_counter = 0
    /\ docs = EmptyDict
    /\ next_oid = 1
    /\ next_uuid = 1
    /\ n_updates = 0
    /\ n_closes = 0
    /\ returned = {}
    /\ last = Call("init", 0, 0, NoArgs, "None", "", NoRet)
    /\ procs = NoProcs
    /\ created = <<>>

BothCreateTree(name) ==
    /\ backend = "both"
    /\ tree_counter < MaxTrees
    /\ next_uuid <= MaxTasks
    /\ tree_counter' = tree_counter + 1
    /\ trees' = DictSet(trees, tree_counter + 1,
                    NewTaskTree(<<Task(name, "Root", next_uuid, None, None, None)>>, 1))
    /\ docs' = DictSet(docs, next_oid,
                 [name |-> name,
                  tree |-> TreeToDict(NewTaskTree(
                      <<Task(name, "Root", next_uuid, None, None, None)>>, 1))])
    /\ next_oid' = next_oid + 1
    /\ next_uuid' = next_uuid + 1
    /\ last' = Call("create_tree", next_oid, 0, [name |-> name], "None", "",
                    [mem   |-> Outcome("None", [id |-> tree_counter + 1]),
                     mongo |-> Outcome("None", [id |-> next_oid])])
    /\ created' = Append(created, [id |-> next_oid, name |-> name])
    /\ UNCHANGED <<procs, backend, n_updates, n_closes, returned>>

BothDeleteTree(tree_id) ==
    /\ backend = "both"
    /\ LET m == IF tree_id \in DOMAIN trees
                THEN [exc |-> "None", trees |-> DictPop(trees, tree_id)]
                ELSE [exc |-> "KeyError", trees |-> trees]
           g == MongoDeleteTreeOp(docs, tree_id)
       IN  /\ trees' = m.trees
           /\ docs' = g.docs
           /\ last' = Call("delete_tree", tree_id, 0, NoArgs, m.exc, "",
                           [mem   |-> Outcome(m.exc, NoRet),
                            mongo |-> Outcome(g.exc, NoRet)])
    /\ UNCHANGED <<created, procs, backend, tree_counter, next_oid, next_uuid, n_updates,
                   n_closes, returned>>

BothListTrees ==
    /\ backend = "both"
    /\ last' = Call("list_trees", 0, 0, NoArgs, "None", "",
          [mem   |-> Outcome("None",
                       [trees |-> [i \in 1..Cardinality(DOMAIN trees) |->
                           LET tid == SortedKeys(DOMAIN trees)[i]
                           IN  [id |-> tid,
                                name |-> trees[tid].nodes[trees[tid].root].description]]]),
           mongo |-> Outcome("None",
                       [trees |-> [i \in 1..Cardinality(DOMAIN docs) |->
                           LET tid == SortedKeys(DOMAIN docs)[i]
                           IN  [id |-> tid, name |-> docs[tid].name]]])])
    /\ UNCHANGED <<created, procs, backend, trees, tree_counter, docs, next_oid, next_uuid,
                   n_updates, n_closes, returned>>

BothCreateTask(tree_id, parent_id) ==
    /\ backend = "both"
    /\ next_uuid <= MaxTasks
    /\ LET m == MemCreateTaskOp(trees, tree_id, parent_id, "a", "d", None, None,
                                next_uuid)
           g == MongoCreateTaskOp(docs, tree_id, parent_id, "a", "d", None, None,
                                  next_uuid)
           ret(r) == IF r.exc = "None" THEN [id |-> next_uuid] ELSE NoRet
       IN  /\ trees' = m.trees
           /\ docs' = g.docs
           /\ next_uuid' = IF m.exc = "None" \/ g.exc = "None"
                           THEN next_uuid + 1 ELSE next_uuid
           /\ last' = Call("create_task", tree_id, parent_id, NoArgs, m.exc, m.names,
                           [mem   |-> Outcome(m.exc, ret(m)),
                            mongo |-> Outcome(g.exc, ret(g))])
    /\ UNCHANGED <<created, procs, backend, tree_counter, next_oid, n_updates, n_closes, returned>>

BothGetTask(tree_id, task_id) ==
    /\ backend = "both"
    /\ LET m == MemGetTaskOp(trees, tree_id, task_id)
           g == MongoGetTaskOp(docs, tree_id, task_id)
       IN  last' = Call("get_task", tree_id, task_id, NoArgs, m.exc, m.names,
                        [mem   |-> Outcome(m.exc, m.ret),
                         mongo |-> Outcome(g.exc, g.ret)])
    /\ UNCHANGED <<created, procs, backend, trees, tree_counter, docs, next_oid, next_uuid,
                   n_updates, n_closes, returned>>

BothUpdateTask(tree_id, task_id, kwargs) ==
    /\ backend = "both"
    /\ n_updates < MaxUpdates
    /\ n_updates' = n_updates + 1
    /\ LET m == MemUpdateTaskOp(trees, tree_id, task_id, kwargs)
           g == MongoUpdateTaskOp(docs, tree_id, task_id, kwargs, next_uuid)
       IN  /\ trees' = m.trees
           /\ docs' = g.docs
           /\ last' = Call("update_task", tree_id, task_id, [kwargs |-> kwargs],
                           m.exc, m.names,
                           [mem   |-> Outcome(m.exc, NoRet),
                            mongo |-> Outcome(g.exc, NoRet)])
    /\ UNCHANGED <<created, procs, backend, tree_counter, next_oid, next_uuid, n_closes, returned>>

BothDeleteTask(tree_id, task_id) ==
    /\ backend = "both"
    /\ LET m == MemDeleteTaskOp(trees, tree_id, task_id)
           g == MongoDeleteTaskOp(docs, tree_id, task_id)
       IN  /\ trees' = m.trees
           /\ docs' = g.docs
           /\ last' = Call("delete_task", tree_id, task_id, NoArgs, m.exc, m.names,
                           [mem   |-> Outcome(m.exc, NoRet),
                            mongo |-> Outcome(g.exc, NoRet)])
    /\ UNCHANGED <<created, procs, backend, tree_counter, next_oid, next_uuid, n_updates,
                   n_closes, returned>>

NextBoth ==
    \/ BothCreateTree("T")
    \/ BothListTrees
    \/ \E t \in BothTreeIds : BothDeleteTree(t)
    \/ \E t \in BothTreeIds, i \in TaskIdInputs : BothCreateTask(t, i)
    \/ \E t \in BothTreeIds, i \in TaskIdInputs : BothGetTask(t, i)
    \/ \E t \in BothTreeIds, i \in TaskIdInputs, kw \in FieldKwargs :
          BothUpdateTask(t, i, kw)
    \/ \E t \in BothTreeIds, i \in TaskIdInputs : BothDeleteTask(t, i)

SpecBoth == InitBoth /\ [][NextBoth]_vars

-----------------------------------------------------------------------------
(* TaskDatabase, the facade: self.db is one of the two backends.           *)
(* create_tree, delete_tree and list_trees hand their arguments on as they *)
(* are, so those calls are the backend's actions.                          *)

\* The positional parameters, self apart, that create_task declares
\* (tree_id, parent_id, description, dod) and that update_task declares
\* (tree_id, task_id); the other arguments of both are keywords.
CreateTaskPositional == 4
UpdateTaskPositional == 2

\* The positional arguments the facade passes: create_task(task_data) and
\* update_task(tree_id, task.id, task_data).
FacadeCreateTaskGiven == 1
FacadeUpdateTaskGiven == 3

\* Python binds the positional arguments of a call to the parameters of the
\* method: TypeError when one stays without an argument or when there are
\* more arguments than parameters.
BindExc(given, positional) ==
    IF given # positional THEN "TypeError" ELSE "None"

\* TaskDatabase.create_task(task, tree_id), the task a Task("a", "d") without
\* parent.
FacadeCreateTask(tree_id) ==
    /\ backend \in {"memory", "mongo"}
    /\ next_uuid <= MaxTasks
    /\ LET e == BindExc(FacadeCreateTaskGiven, CreateTaskPositional)
           r == IF backend = "memory"
                THEN MemCreateTaskOp(trees, tree_id, 0, "a", "d", None, None, next_uuid)
                     @@ [docs |-> docs]
                ELSE MongoCreateTaskOp(docs, tree_id, 0, "a", "d", None, None, next_uuid)
                     @@ [trees |-> trees]
       IN  IF e # "None"
           THEN /\ last' = Call("TaskDatabase.create_task", tree_id, 0, NoArgs,
                                e, "", NoRet)
                /\ UNCHANGED <<trees, docs, next_uuid>>
           ELSE /\ trees' = r.trees
                /\ docs' = r.docs
                /\ next_uuid' = IF r.exc = "None" THEN next_uuid + 1 ELSE next_uuid
                /\ last' = Call("TaskDatabase.create_task", tree_id, 0, NoArgs,
                                r.exc, r.names,
                                IF r.exc = "None" THEN [id |-> next_uuid] ELSE NoRet)
    /\ UNCHANGED <<created, procs, backend, tree_counter, next_oid, n_updates, n_closes, returned>>

\* TaskDatabase.get_task(task_id, tree_id)
FacadeGetTask(tree_id, task_id) ==
    /\ backend \in {"memory", "mongo"}
    /\ LET r == IF backend = "memory" THEN MemGetTaskOp(trees, tree_id, task_id)
                ELSE MongoGetTaskOp(docs, tree_id, task_id)
       IN  last' = Call("TaskDatabase.get_task", tree_id, task_id, NoArgs,
                        r.exc, r.names, r.ret)
    /\ UNCHANGED <<created, procs, backend, trees, tree_counter, docs, next_oid, next_uuid,
                   n_updates, n_closes, returned>>

\* TaskDatabase.update_task(task, tree_id), the task a Task("X", "d") with
\* the id task_id.
FacadeUpdateTask(tree_id, task_id) ==
    /\ backend \in {"memory", "mongo"}
    /\ LET e == BindExc(FacadeUpdateTaskGiven, UpdateTaskPositional)
           kwargs == [description |-> Some("X"), dod |-> Some("d")]
           r == IF backend = "memory"
                THEN MemUpdateTaskOp(trees, tree_id, task_id, kwargs)
                     @@ [docs |-> docs]
                ELSE MongoUpdateTaskOp(docs, tree_id, task_id, kwargs, next_uuid)
                     @@ [trees |-> trees]
       IN  IF e # "None"
           THEN /\ last' = Call("TaskDatabase.update_task", tree_id, task_id,
                                NoArgs, e, "", NoRet)
                /\ UNCHANGED <<trees, docs>>
           ELSE /\ trees' = r.trees
                /\ docs' = r.docs
                /\ last' = Call("TaskDatabase.update_task", tree_id, task_id,
                                NoArgs, r.exc, r.names, NoRet)
    /\ UNCHANGED <<created, procs, backend, tree_counter, next_oid, next_uuid, n_updates,
                   n_closes, returned>>

\* TaskDatabase.delete_task(task_id, tree_id)
FacadeDeleteTask(tree_id, task_id) ==
    /\ backend \in {"memory", "mongo"}
    /\ LET r == IF backend = "memory"
                THEN MemDeleteTaskOp(trees, tree_id, task_id) @@ [docs |-> docs]
                ELSE MongoDeleteTaskOp(docs, tree_id, task_id) @@ [trees |-> trees]
       IN  /\ trees' = r.trees
           /\ docs' = r.docs
           /\ last' = Call("TaskDatabase.delete_task", tree_id, task_id, NoArgs,
                           r.exc, r.names, NoRet)
    /\ UNCHANGED <<created, procs, backend, tree_counter, next_oid, next_uuid, n_updates,
                   n_closes, returned>>

\* Calls through the facade; tasks also come into the store by create_task
\* of the backend it holds.
NextFacade ==
    \/ MemCreateTree("T", MaxTasks)
    \/ MongoCreateTree("T", MaxTasks)
    \/ \E t \in TreeIdInputs, i \in TaskIdInputs : MemCreateTask(t, i, MaxTasks)
    \/ \E t \in TreeIdInputs, i \in TaskIdInputs : MongoCreateTask(t, i, MaxTasks)
    \/ \E t \in TreeIdInputs : FacadeCreateTask(t)
    \/ \E t \in TreeIdInputs, i \in TaskIdInputs : FacadeGetTask(t, i)
    \/ \E t \in TreeIdInputs, i \in TaskIdInputs : FacadeUpdateTask(t, i)
    \/ \E t \in TreeIdInputs, i \in TaskIdInputs : FacadeDeleteTask(t, i)

SpecFacade == Init /\ [][NextFacade]_vars

-----------------------------------------------------------------------------
(* Concurrent callers.  Each coroutine of `procs` is one call; the event    *)
(* loop runs a coroutine from one await to the next without interruption.   *)

\* The keyword arguments concurrent callers of update_task pass.
ConcKwargs == {[description |-> Some("X")], [status |-> Some(TaskStatus("done"))]}

\* The coroutines are numbered in the order of the calls: p is the next one.
Idle(p) ==
    /\ procs[p].pc = "idle"
    /\ \A q \in Procs : q < p => procs[q].pc # "idle"

Started(p, pc, op, tree_id, task_id, args) ==
    [IdleProc EXCEPT !.pc = pc, !.op = op, !.tree_id = tree_id,
                     !.task_id = task_id, !.args = args,
                     !.pending = {q \in Procs :
                                    procs[q].pc \notin {"idle", "done"}}]

Finished(c, exc, names, ret) ==
    [c EXCEPT !.pc = "done", !.exc = exc, !.names = names, !.ret = ret]

CallOf(c) == Call(c.op, c.tree_id, c.task_id, c.args, c.exc, c.names, c.ret)

(* InMemoryDatabase: every method is `await asyncio.sleep(0)` followed by   *)
(* a body that holds no await.                                              *)

\* A variant of the first step of a call in which create_tree counts the
\* tree before it sleeps.
MemStartEager(p, op, tree_id, task_id, args) ==
    /\ backend = "memory"
    /\ Idle(p)
    /\ op = "create_tree" =>
          tree_counter + Cardinality({q \in Procs :
              procs[q].pc = "suspended" /\ procs[q].op = "create_tree"}) < MaxTrees
    /\ procs' = [procs EXCEPT ![p] =
                    Started(p, "suspended", op, tree_id, task_id, args)]
    /\ tree_counter' = IF op = "create_tree" THEN tree_counter + 1
                       ELSE tree_counter
    /\ UNCHANGED <<created, backend, trees, docs, next_oid, next_uuid,
                   n_updates, n_closes, returned, last>>

\* The call is made and the coroutine runs to its asyncio.sleep(0).
MemStart(p, op, tree_id, task_id, args) ==
    /\ backend = "memory"
    /\ Idle(p)
    /\ op = "create_tree" =>
          tree_counter + Cardinality({q \in Procs :
              procs[q].pc = "suspended" /\ procs[q].op = "create_tree"}) < MaxTrees
    /\ procs' = [procs EXCEPT ![p] =
                    Started(p, "suspended", op, tree_id, task_id, args)]
    /\ UNCHANGED <<created, backend, trees, tree_counter, docs, next_oid, next_uuid,
                   n_updates, n_closes, returned, last>>

\* The body of the method of call c after the sleep, on the store it finds.
MemBody(trs, counter, uuid, c) ==
    CASE c.op = "create_tree" ->
           [exc |-> "None", names |-> "", ret |-> [id |-> counter + 1],
            trees |-> DictSet(trs, counter + 1,
                NewTaskTree(<<Task(c.args.name, "Root", uuid, None, None, None)>>, 1)),
            tree_counter |-> counter + 1, next_uuid |-> uuid + 1]
      [] c.op = "delete_tree" ->
           IF c.tree_id \notin DOMAIN trs
           THEN [exc |-> "KeyError", names |-> "tree", ret |-> NoRet,
                 trees |-> trs, tree_counter |-> counter, next_uuid |-> uuid]
           ELSE [exc |-> "None", names |-> "", ret |-> NoRet,
                 trees |-> DictPop(trs, c.tree_id),
                 tree_counter |-> counter, next_uuid |-> uuid]
      [] c.op = "list_trees" ->
           [exc |-> "None", names |-> "",
            ret |-> [trees |-> [i \in 1..Cardinality(DOMAIN trs) |->
                LET tid == SortedKeys(DOMAIN trs)[i]
                IN  [id |-> tid,
                     name |-> trs[tid].nodes[trs[tid].root].description]]],
            trees |-> trs, tree_counter |-> counter, next_uuid |-> uuid]
      [] c.op = "create_task" ->
           LET r == MemCreateTaskOp(trs, c.tree_id, c.task_id, "a", "d",
                                    None, None, uuid)
           IN  [exc |-> r.exc, names |-> r.names,
                ret |-> IF r.exc = "None" THEN [id |-> uuid] ELSE NoRet,
                trees |-> r.trees, tree_counter |-> counter,
                next_uuid |-> IF r.exc = "None" THEN uuid + 1 ELSE uuid]
      [] c.op = "get_task" ->
           LET r == MemGetTaskOp(trs, c.tree_id, c.task_id)
           IN  [exc |-> r.exc, names |-> r.names, ret |-> r.ret,
                trees |-> trs, tree_counter |-> counter, next_uuid |-> uuid]
      [] c.op = "update_task" ->
           LET r == MemUpdateTaskOp(trs, c.tree_id, c.task_id, c.args.kwargs)
           IN  [exc |-> r.exc, names |-> r.names, ret |-> NoRet,
                trees |-> r.trees, tree_counter |-> counter, next_uuid |-> uuid]
      [] c.op = "delete_task" ->
           LET r == MemDeleteTaskOp(trs, c.tree_id, c.task_id)
           IN  [exc |-> r.exc, names |-> r.names, ret |-> NoRet,
                trees |-> r.trees, tree_counter |-> counter, next_uuid |-> uuid]

\* The loop resumes the coroutine: the body runs to its return or raise.
MemRun(p) ==
    /\ backend = "memory"
    /\ procs[p].pc = "suspended"
    /\ LET r == MemBody(trees, tree_counter, next_uuid, procs[p])
           c == Finished(procs[p], r.exc, r.names, r.ret)
       IN  /\ trees' = r.trees
           /\ tree_counter' = r.tree_counter
           /\ next_uuid' = r.next_uuid
           /\ procs' = [procs EXCEPT ![p] = c]
           /\ last' = CallOf(c)
           /\ returned' = IF c.op = "create_task" /\ r.exc = "None"
                          THEN returned \cup {[tree_id |-> c.tree_id, id |-> next_uuid,
                                               parent_id |-> c.task_id]}
                          ELSE returned
    /\ created' = IF procs[p].op = "create_tree"
                  THEN Append(created, [id |-> tree_counter + 1,
                                        name |-> procs[p].args.name])
                  ELSE created
    /\ UNCHANGED <<backend, docs, next_oid, n_updates, n_closes>>

InitMemConc ==
    /\ Init
    /\ backend = "memory"

NextMemConc ==
    \/ \E p \in Procs : MemStart(p, "create_tree", 0, 0, [name |-> "T"])
    \/ \E p \in Procs, t \in TreeIdInputs : MemStart(p, "delete_tree", t, 0, NoArgs)
    \/ \E p \in Procs : MemStart(p, "list_trees", 0, 0, NoArgs)
    \/ \E p \in Procs, t \in TreeIdInputs, i \in TaskIdInputs :
          MemStart(p, "create_task", t, i, NoArgs)
    \/ \E p \in Procs, t \in TreeIdInputs, i \in TaskIdInputs :
          MemStart(p, "get_task", t, i, NoArgs)
    \/ \E p \in Procs, t \in TreeIdInputs, i \in TaskIdInputs, kw \in ConcKwargs :
          MemStart(p, "update_task", t, i, [kwargs |-> kw])
    \/ \E p \in Procs, t \in TreeIdInputs, i \in TaskIdInputs :
          MemStart(p, "delete_task", t, i, NoArgs)
    \/ \E p \in Procs : MemRun(p)

SpecMemConc == InitMemConc /\ [][NextMemConc]_vars

\* The event loop resumes every coroutine that sleeps.
SpecMemConcFair == SpecMemConc /\ \A p \in Procs : WF_vars(MemRun(p))

(* MongoDatabase: a task-scoped method awaits find_one in _load_tree, works *)
(* on the TaskTree it reconstructed, and awaits update_one in _save_tree;   *)
(* delete_task on a root awaits delete_one in between.                      *)

\* The call is made; find_one answers and the coroutine runs to its next
\* await, or to its return or raise.
MongoLoad(p, op, tree_id, task_id, args) ==
    /\ backend = "mongo"
    /\ Idle(p)
    /\ op = "create_task" => next_uuid <= MaxCreated
    /\ LET c == Started(p, "loaded", op, tree_id, task_id, args)
           l == MongoLoadTree(docs, tree_id)
           task == TreeGet(l.tree, task_id)
           missing == IF op = "create_task" THEN "parent" ELSE "task"
           u == TreeUpdate(l.tree, task_id, args.kwargs)
           g == MongoGetTaskOp(docs, tree_id, task_id)
           Holds(tree) == [c EXCEPT !.tree = Some(tree)]
       IN  /\ procs' = [procs EXCEPT ![p] =
                IF l.exc # "None" THEN Finished(c, l.exc, l.names, NoRet)
                ELSE IF task = None THEN Finished(c, "KeyError", missing, NoRet)
                ELSE CASE op = "create_task" ->
                            [Holds(TreeAddSubtask(l.tree, task_id, "a", "d", None,
                                                  None, next_uuid).tree)
                                EXCEPT !.ret = [id |-> next_uuid]]
                       [] op = "get_task" -> Finished(c, g.exc, g.names, g.ret)
                       [] op = "update_task" ->
                            IF u.exc # "None" THEN Finished(c, u.exc, u.names, NoRet)
                            ELSE Holds(u.tree)
                       [] op = "delete_task" ->
                            IF l.tree.nodes[task[1]].parent # None
                            THEN Holds(RemoveFromParent(l.tree,
                                     l.tree.nodes[task[1]].parent[1], task_id))
                            ELSE IF TaskEq(l.tree.nodes, task[1], l.tree.root)
                                 THEN [Holds(l.tree) EXCEPT !.pc = "deleting"]
                                 ELSE Holds(l.tree)]
           /\ next_uuid' = IF op = "create_task" /\ procs'[p].pc = "loaded"
                           THEN next_uuid + 1 ELSE next_uuid
           /\ last' = IF procs'[p].pc = "done" THEN CallOf(procs'[p]) ELSE last
    /\ UNCHANGED <<created, backend, trees, tree_counter, docs, next_oid,
                   n_updates, n_closes, returned>>

\* delete_one of delete_task on a root answers.
MongoDeleteRoot(p) ==
    /\ backend = "mongo"
    /\ procs[p].pc = "deleting"
    /\ LET d == MongoDeleteTreeOp(docs, procs[p].tree_id)
       IN  /\ docs' = d.docs
           /\ procs' = [procs EXCEPT ![p] =
                IF d.exc # "None" THEN Finished(@, d.exc, d.names, NoRet)
                ELSE [@ EXCEPT !.pc = "loaded"]]
           /\ last' = IF d.exc # "None" THEN CallOf(procs'[p]) ELSE last
    /\ UNCHANGED <<created, backend, trees, tree_counter, next_oid, next_uuid,
                   n_updates, n_closes, returned>>

\* update_one of _save_tree answers and the method returns or raises.
MongoSave(p) ==
    /\ backend = "mongo"
    /\ procs[p].pc = "loaded"
    /\ LET r == MongoSaveTree(docs, procs[p].tree_id, procs[p].tree[1])
           c == Finished(procs[p], r.exc, r.names,
                         IF r.exc = "None" THEN procs[p].ret ELSE NoRet)
       IN  /\ docs' = r.docs
           /\ procs' = [procs EXCEPT ![p] = c]
           /\ last' = CallOf(c)
           /\ returned' = IF c.op = "create_task" /\ r.exc = "None"
                          THEN returned \cup {[tree_id |-> c.tree_id, id |-> c.ret.id,
                                               parent_id |-> c.task_id]}
                          ELSE returned
    /\ UNCHANGED <<created, backend, trees, tree_counter, next_oid, next_uuid,
                   n_updates, n_closes>>

InitMongoConc ==
    /\ Init
    /\ backend = "mongo"

NextMongoConc ==
    \/ MongoCreateTree("T", MaxCreated)
    \/ \E p \in Procs, t \in TreeIdInputs, i \in TaskIdInputs :
          MongoLoad(p, "create_task", t, i, NoArgs)
    \/ \E p \in Procs, t \in TreeIdInputs, i \in TaskIdInputs :
          MongoLoad(p, "get_task", t, i, NoArgs)
    \/ \E p \in Procs, t \in TreeIdInputs, i \in TaskIdInputs, kw \in ConcKwargs :
          MongoLoad(p, "update_task", t, i, [kwargs |-> kw])
    \/ \E p \in Procs, t \in TreeIdInputs, i \in TaskIdInputs :
          MongoLoad(p, "delete_task", t, i, NoArgs)
    \/ \E p \in Procs : MongoDeleteRoot(p)
    \/ \E p \in Procs : MongoSave(p)

SpecMongoConc == InitMongoConc /\ [][NextMongoConc]_vars

-----------------------------------------------------------------------------
(* A store of several trees, one caller.                                    *)

\* The names the caller gives its trees.
TreeNames == {"T", "U"}

\* A variant of create_tree that numbers the new tree by the size of the
\* store.
MemCreateNextTreeBySize(name) ==
    /\ backend = "memory"
    /\ tree_counter < MaxForest
    /\ next_uuid <= MaxTasks
    /\ tree_counter' = tree_counter + 1
    /\ trees' = DictSet(trees, Cardinality(DOMAIN trees) + 1,
                    NewTaskTree(<<Task(name, "Root", next_uuid, None, None, None)>>, 1))
    /\ next_uuid' = next_uuid + 1
    /\ last' = Call("create_tree", Cardinality(DOMAIN trees) + 1, 0,
                    [name |-> name], "None", "",
                    [id |-> Cardinality(DOMAIN trees) + 1])
    /\ created' = Append(created, [id |-> Cardinality(DOMAIN trees) + 1,
                                   name |-> name])
    /\ UNCHANGED <<procs, backend, docs, next_oid, n_updates, n_closes, returned>>

\* database.py: InMemoryDatabase.create_tree, as long as the store has seen
\* fewer than MaxForest trees.
MemCreateNextTree(name) ==
    /\ backend = "memory"
    /\ tree_counter < MaxForest
    /\ next_uuid <= MaxTasks
    /\ tree_counter' = tree_counter + 1
    /\ trees' = DictSet(trees, tree_counter + 1,
                    NewTaskTree(<<Task(name, "Root", next_uuid, None, None, None)>>, 1))
    /\ next_uuid' = next_uuid + 1
    /\ last' = Call("create_tree", tree_counter + 1, 0, [name |-> name],
                    "None", "", [id |-> tree_counter + 1])
    /\ created' = Append(created, [id |-> tree_counter + 1, name |-> name])
    /\ UNCHANGED <<procs, backend, docs, next_oid, n_updates, n_closes, returned>>

\* database.py: MongoDatabase.create_tree, likewise.
MongoCreateNextTree(name) ==
    /\ backend = "mongo"
    /\ next_oid <= MaxForest
    /\ next_uuid <= MaxTasks
    /\ docs' = DictSet(docs, next_oid,
                 [name |-> name,
                  tree |-> TreeToDict(NewTaskTree(
                      <<Task(name, "Root", next_uuid, None, None, None)>>, 1))])
    /\ next_oid' = next_oid + 1
    /\ next_uuid' = next_uuid + 1
    /\ last' = Call("create_tree", next_oid, 0, [name |-> name], "None", "",
                    [id |-> next_oid])
    /\ created' = Append(created, [id |-> next_oid, name |-> name])
    /\ UNCHANGED <<procs, backend, trees, tree_counter, n_updates, n_closes,
                   returned>>

NextForest ==
    \/ \E name \in TreeNames : MemCreateNextTree(name)
    \/ \E t \in TreeIdInputs : MemDeleteTree(t)
    \/ MemListTrees
    \/ \E t \in TreeIdInputs, i \in TaskIdInputs : MemCreateTask(t, i, MaxTasks)
    \/ \E t \in TreeIdInputs, i \in TaskIdInputs : MemGetTask(t, i)
    \/ \E t \in TreeIdInputs, i \in TaskIdInputs : MemUpdateTask(t, i)
    \/ \E t \in TreeIdInputs, i \in TaskIdInputs : MemDeleteTask(t, i)
    \/ \E name \in TreeNames : MongoCreateNextTree(name)
    \/ \E t \in TreeIdInputs : MongoDeleteTree(t)
    \/ MongoListTrees
    \/ \E t \in TreeIdInputs, i \in TaskIdInputs : MongoCreateTask(t, i, MaxTasks)
    \/ \E t \in TreeIdInputs, i \in TaskIdInputs : MongoGetTask(t, i)
    \/ \E t \in TreeIdInputs, i \in TaskIdInputs : MongoUpdateTask(t, i)
    \/ \E t \in TreeIdInputs, i \in TaskIdInputs : MongoDeleteTask(t, i)

SpecForest == Init /\ [][NextForest]_vars

-----------------------------------------------------------------------------
(* Reading the store of whichever backend is active *)

StoreHas(trs, ds, t) ==
    IF backend = "memory" THEN t \in DOMAIN trs ELSE t \in DOMAIN ds

\* The TaskTree object of t: the one the volatile backend holds, the one the
\* persisted backend reconstructs on every call.
StoreTree(trs, ds, t) ==
    IF backend = "memory" THEN trs[t] ELSE TreeFromDict(ds[t].tree)

GetTaskOp(trs, ds, t, i) ==
    IF backend = "memory" THEN MemGetTaskOp(trs, t, i) ELSE MongoGetTaskOp(ds, t, i)

\* The ids a node's subtasks list holds.
ChildIds(nodes, p) == {nodes[nodes[p].subtasks[i]].id : i \in 1..Len(nodes[p].subtasks)}

IndexMatchesTree(tree) ==
    LET reach == Reachable(tree.nodes, tree.root)
    IN  /\ DOMAIN tree.index = {tree.nodes[a].id : a \in reach}
        /\ \A id \in DOMAIN tree.index :
              tree.index[id] \in reach /\ tree.nodes[tree.index[id]].id = id

\* The number of nodes on the longest chain below a (a included).
RECURSIVE Depth(_, _)
Depth(nodes, a) ==
    IF nodes[a].subtasks = <<>> THEN 1
    ELSE 1 + (CHOOSE m \in {Depth(nodes, nodes[a].subtasks[i]) :
                               i \in 1..Len(nodes[a].subtasks)} :
                \A i \in 1..Len(nodes[a].subtasks) :
                   Depth(nodes, nodes[a].subtasks[i]) <= m)

-----------------------------------------------------------------------------
(* Claims *)

\* C1: in the volatile backend, after any sequence of create_tree,
\* create_task and delete_task calls (the claim also allows update and
\* close; none is needed to refute it), the keys of a tree's index are
\* exactly the ids of the nodes reachable from its root, each key mapped to
\* the reachable node with that id.
C1_IndexEqualsReachable ==
    (backend = "memory" /\ n_updates = 0 /\ n_closes = 0)
        => \A t \in DOMAIN trees : IndexMatchesTree(trees[t])

\* C2: when delete_task succeeds on a non-root task, get_task on every
\* descendant of that task fails with not-found afterwards (either backend;
\* stated for runs without update or close).
C2_Step ==
    (/\ last'.op = "delete_task"
     /\ last'.exc = "None"
     /\ n_updates = 0 /\ n_closes = 0
     /\ StoreHas(trees, docs, last'.tree_id))
    => LET t == last'.tree_id
           tree == StoreTree(trees, docs, t)
           a == TreeGet(tree, last'.task_id)
       IN  (a # None /\ a[1] # tree.root)
           => \A d \in Reachable(tree.nodes, a[1]) \ {a[1]} :
                 LET g == GetTaskOp(trees', docs', t, tree.nodes[d].id)
                 IN  g.exc = "KeyError" /\ g.names \in {"task", "tree"}

C2_DescendantsNotFoundAfterDelete == [][C2_Step]_vars

\* C3: delete_task on the root task of a tree fails with an error and leaves
\* the store as it was: the tree is still there with the same nodes.
C3_Step ==
    (/\ last'.op = "delete_task"
     /\ n_updates = 0 /\ n_closes = 0
     /\ StoreHas(trees, docs, last'.tree_id)
     /\ TreeGet(StoreTree(trees, docs, last'.tree_id), last'.task_id)
           = Some(StoreTree(trees, docs, last'.tree_id).root))
    => /\ last'.exc # "None"
       /\ trees' = trees
       /\ docs' = docs

C3_RootDeleteIsRejected == [][C3_Step]_vars

\* C4: when delete_task(id) succeeds on a non-root task of the volatile
\* backend, id is no key of the tree's index afterwards, no element of the
\* former parent's subtasks list has that id, and get_task(id) fails with
\* not-found.
C4_Step ==
    (/\ last'.op = "delete_task"
     /\ last'.exc = "None"
     /\ backend = "memory"
     /\ last'.tree_id \in DOMAIN trees)
    => LET t == last'.tree_id
           id == last'.task_id
           tree == trees[t]
           a == TreeGet(tree, id)
       IN  (a # None /\ a[1] # tree.root)
           => /\ t \in DOMAIN trees'
              /\ id \notin DOMAIN trees'[t].index
              /\ tree.nodes[a[1]].parent # None
                    => id \notin ChildIds(trees'[t].nodes, tree.nodes[a[1]].parent[1])
              /\ MemGetTaskOp(trees', t, id).exc = "KeyError"

C4_DeletedTaskIsGone == [][C4_Step]_vars

\* C5: when only create_tree, create_task and get_task are called, every id
\* create_task has returned is found by get, the node found has as parent
\* the node found under the call's parent_id, the serialized subtasks of
\* that parent hold an entry with the returned id, and get_task succeeds.
C5_CreatedTasksAreFound ==
    \A r \in returned :
        /\ StoreHas(trees, docs, r.tree_id)
        /\ LET tree == StoreTree(trees, docs, r.tree_id)
               c == TreeGet(tree, r.id)
               p == TreeGet(tree, r.parent_id)
           IN  /\ c # None
               /\ p # None
               /\ tree.nodes[c[1]].parent = p
               /\ ToDictExc(tree.nodes, p[1]) = "None"
               /\ \E i \in 1..Len(ToDict(tree.nodes, p[1]).subtasks) :
                     ToDict(tree.nodes, p[1]).subtasks[i].id = r.id
               /\ GetTaskOp(trees, docs, r.tree_id, r.id).exc = "None"

\* C5 witness: three create_task calls have nested tasks three levels below
\* a root.
C5_Witness ==
    \E r1 \in returned, r2 \in returned, r3 \in returned :
        /\ r2.parent_id = r1.id
        /\ r3.parent_id = r2.id
        /\ r1.tree_id = r2.tree_id /\ r2.tree_id = r3.tree_id

\* C6: for every tree the store holds whose to_dict returns, serializing,
\* reconstructing with TaskTree.from_dict and serializing again gives the
\* same dict: every field of every node, the subtasks in the same order.
C6_RoundTrip ==
    /\ \A t \in DOMAIN trees :
          ToDictExc(trees[t].nodes, trees[t].root) = "None"
              => TreeToDict(TreeFromDict(TreeToDict(trees[t]))) = TreeToDict(trees[t])
    /\ \A t \in DOMAIN docs :
          TreeToDict(TreeFromDict(docs[t].tree)) = docs[t].tree

\* C6 witness: a tree three levels deep, one of whose nodes was closed with a
\* reason, and which serializes.
C6_Witness ==
    \E t \in DOMAIN trees :
        /\ ToDictExc(trees[t].nodes, trees[t].root) = "None"
        /\ Depth(trees[t].nodes, trees[t].root) >= 3
        /\ \E a \in Reachable(trees[t].nodes, trees[t].root) :
              trees[t].nodes[a].close_reason # None

\* C7: an update call of the volatile backend that finds its task changes,
\* on the addressed node, exactly the fields given with a value other than
\* None (each to the value given), and changes no field of any other node.
C7_Step ==
    (/\ last'.op = "update_task"
     /\ n_updates' = n_updates + 1
     /\ backend = "memory"
     /\ last'.exc # "KeyError")
    => LET t == last'.tree_id
           kw == last'.args.kwargs
           pre == trees[t].nodes
           post == trees'[t].nodes
           a == trees[t].index[last'.task_id]
       IN  /\ \A b \in 1..Len(pre) : b # a => post[b] = pre[b]
           /\ \A f \in TaskFields :
                 post[a][f] =
                    IF f \in DOMAIN kw /\ kw[f] # None
                    THEN IF f \in OptionalFields THEN kw[f] ELSE kw[f][1]
                    ELSE pre[a][f]

C7_UpdateIsSparseMerge == [][C7_Step]_vars

\* C7 witness: update(id, description="X") was applied to a node that has a
\* subtask, and update with a None keyword was applied.
C7_Witness ==
    /\ last.op = "update_task"
    /\ last.exc = "None"
    /\ backend = "memory"
    /\ last.args.kwargs = [description |-> Some("X")]
    /\ last.tree_id \in DOMAIN trees
    /\ last.task_id \in DOMAIN trees[last.tree_id].index
    /\ trees[last.tree_id].nodes[trees[last.tree_id].index[last.task_id]].subtasks # <<>>
    /\ trees[last.tree_id].nodes[trees[last.tree_id].index[last.task_id]].description = "X"

\* C8: close on a node of the index with status done or cancelled sets the
\* node's status and close_reason in the same step; with status todo or
\* in_progress it raises ValueError and changes neither.
C8_Step ==
    (/\ last'.op = "close"
     /\ n_closes' = n_closes + 1
     /\ last'.task_id \in DOMAIN trees[last'.tree_id].index)
    => LET t == last'.tree_id
           a == trees[t].index[last'.task_id]
           status == last'.args.status
           reason == last'.args.reason
       IN  IF status.value \in {"done", "cancelled"}
           THEN /\ last'.exc = "None"
                /\ trees'[t].nodes[a].status = status
                /\ trees'[t].nodes[a].close_reason = reason
           ELSE /\ last'.exc = "ValueError"
                /\ trees' = trees

C8_CloseSetsBothOrNeither == [][C8_Step]_vars

\* C8 witness: close(id, done, "shipped") has returned on a node that was
\* not closed with that reason by its construction.
C8_Witness ==
    /\ last.op = "close"
    /\ last.exc = "None"
    /\ last.args = [status |-> TaskStatus("done"), reason |-> Some("shipped")]
    /\ last.task_id \in DOMAIN trees[last.tree_id].index
    /\ trees[last.tree_id].nodes[trees[last.tree_id].index[last.task_id]].status
          = TaskStatus("done")
    /\ trees[last.tree_id].nodes[trees[last.tree_id].index[last.task_id]].close_reason
          = Some("shipped")

\* C9: create_task on an existing tree with a parent_id that is no key of
\* the tree's index raises KeyError naming the parent and changes nothing:
\* no tree, no index, no document, no id is returned.
C9_Step ==
    (/\ last'.op = "create_task"
     /\ StoreHas(trees, docs, last'.tree_id)
     /\ TreeGet(StoreTree(trees, docs, last'.tree_id), last'.task_id) = None)
    => /\ last'.exc = "KeyError"
       /\ last'.names = "parent"
       /\ last'.ret = NoRet
       /\ trees' = trees
       /\ docs' = docs
       /\ returned' = returned

C9_MissingParentIsRejected == [][C9_Step]_vars

\* C9 witness: create_task was rejected for its parent on a tree that holds
\* a task other than its root.
C9_Witness ==
    /\ last.op = "create_task"
    /\ last.exc = "KeyError"
    /\ last.names = "parent"
    /\ StoreHas(trees, docs, last.tree_id)
    /\ Len(StoreTree(trees, docs, last.tree_id).nodes) >= 2

\* C10: a task-scoped call with a tree id the store does not hold raises
\* KeyError naming the tree; get_task, update_task and delete_task on a tree
\* the store holds, with a task id that is no key of its index, raise
\* KeyError naming the task.
C10_Step ==
    last'.op \in {"create_task", "get_task", "update_task", "delete_task"}
    => /\ ~StoreHas(trees, docs, last'.tree_id)
            => last'.exc = "KeyError" /\ last'.names = "tree"
       /\ (/\ StoreHas(trees, docs, last'.tree_id)
           /\ last'.op # "create_task"
           /\ TreeGet(StoreTree(trees, docs, last'.tree_id), last'.task_id) = None)
            => last'.exc = "KeyError" /\ last'.names = "task"

C10_MissingIdsAreNotFound == [][C10_Step]_vars

\* C11: when one caller issues the same sequence of create_tree,
\* create_task, get_task, delete_task, delete_tree and list_trees calls on
\* the volatile and on the persisted backend (the claim also allows
\* update_task; none is needed to refute it), every call has the same
\* outcome on both: the same exception class or none, and the same value
\* returned.
C11_BackendsAgree ==
    (backend = "both" /\ last.op # "init" /\ n_updates = 0)
        => last.ret.mem = last.ret.mongo

\* C12: a node keeps the id it was created with: no step of the volatile
\* backend (update with an id keyword included) changes the id of a node
\* object of a tree that the store holds before and after the step.
C12_Step ==
    backend = "memory"
    => \A t \in DOMAIN trees \cap DOMAIN trees' :
          \A a \in 1..Len(trees[t].nodes) :
             trees'[t].nodes[a].id = trees[t].nodes[a].id

C12_IdNeverChanges == [][C12_Step]_vars

\* C13: in every tree of the volatile backend, no two distinct nodes
\* reachable from the root carry the same id.
C13_IdsAreUnique ==
    backend = "memory"
    => \A t \in DOMAIN trees :
          \A a \in Reachable(trees[t].nodes, trees[t].root),
             b \in Reachable(trees[t].nodes, trees[t].root) :
             a # b => trees[t].nodes[a].id # trees[t].nodes[b].id

\* C14: in every tree of the volatile backend the root's parent is None and
\* every other node reachable from the root has as parent a node whose
\* subtasks list holds it.
C14_ParentLinksChildren ==
    backend = "memory"
    => \A t \in DOMAIN trees :
          LET nodes == trees[t].nodes
              root == trees[t].root
          IN  /\ nodes[root].parent = None
              /\ \A a \in Reachable(nodes, root) \ {root} :
                    /\ nodes[a].parent # None
                    /\ \E i \in 1..Len(nodes[nodes[a].parent[1]].subtasks) :
                          nodes[nodes[a].parent[1]].subtasks[i] = a

\* C15: in every tree of the volatile backend no node is reached from
\* itself by following subtasks links.
C15_TreeIsAcyclic ==
    backend = "memory"
    => \A t \in DOMAIN trees :
          ~Visit(trees[t].nodes, trees[t].root, {}).raised

\* C16: a step that is not a close leaves the close_reason of every node of
\* the volatile backend as it was; update in particular never sets it.
C16_Step ==
    (backend = "memory" /\ last'.op # "close")
    => \A t \in DOMAIN trees \cap DOMAIN trees' :
          \A a \in 1..Len(trees[t].nodes) :
             trees'[t].nodes[a].close_reason = trees[t].nodes[a].close_reason

C16_CloseReasonOnlyByClose == [][C16_Step]_vars

\* C17: when update_task(id, description="X", dod="Y", status="done"), the
\* status given as a string, has returned without error, get_task(id)
\* succeeds and returns those three values.
C17_Step ==
    (/\ last'.op = "update_task"
     /\ last'.exc = "None"
     /\ n_updates' = n_updates + 1
     /\ last'.args.kwargs = [description |-> Some("X"), dod |-> Some("Y"),
                             status |-> Some(Str("done"))])
    => LET g == GetTaskOp(trees', docs', last'.tree_id, last'.task_id)
       IN  /\ g.exc = "None"
           /\ g.ret.task.description = "X"
           /\ g.ret.task.dod = "Y"
           /\ g.ret.task.status = "done"

C17_UpdatedFieldsAreRead == [][C17_Step]_vars

\* C18: through the facade, on either backend, create_task for a tree the
\* store holds returns an id without error, and update_task on a task of
\* such a tree returns without error.
C18_Step ==
    /\ (/\ last'.op = "TaskDatabase.create_task"
        /\ StoreHas(trees, docs, last'.tree_id))
       => (last'.exc = "None" /\ last'.ret # NoRet)
    /\ (/\ last'.op = "TaskDatabase.update_task"
        /\ StoreHas(trees, docs, last'.tree_id)
        /\ TreeGet(StoreTree(trees, docs, last'.tree_id), last'.task_id) # None)
       => last'.exc = "None"

C18_FacadeReachesBackend == [][C18_Step]_vars

\* C19: a call that ends by raising leaves the store as it was before the
\* call: the same trees with the same content, the same documents (stated
\* for the calls other than update_task).
C19_Step ==
    (last'.exc # "None" /\ last'.op # "update_task")
    => (trees' = trees /\ docs' = docs)

C19_NoChangeOnError == [][C19_Step]_vars

\* C20: when update(id, subtasks=L) has returned on a tree of the volatile
\* backend, the index is the one of the new tree: its keys are the ids of
\* the nodes reachable from the root, each mapped to a reachable node with
\* that id; every node of L and every descendant of one has its id in the
\* index, mapped to that very node when no other reachable node has the id;
\* a node no longer reachable, whose id no reachable node has, is not found.
C20_Step ==
    (/\ last'.op = "update_task"
     /\ n_updates' = n_updates + 1
     /\ backend = "memory"
     /\ last'.exc = "None"
     /\ "subtasks" \in DOMAIN last'.args.kwargs
     /\ last'.args.kwargs.subtasks # None)
    => LET post == trees'[last'.tree_id]
           L == last'.args.kwargs.subtasks[1]
           reach == Reachable(post.nodes, post.root)
           ids == {post.nodes[b].id : b \in reach}
       IN  /\ IndexMatchesTree(post)
           /\ \A i \in 1..Len(L) : \A b \in Reachable(post.nodes, L[i]) :
                 /\ b \in reach
                 /\ TreeGet(post, post.nodes[b].id) # None
                 /\ (\A c \in reach : post.nodes[c].id = post.nodes[b].id => c = b)
                       => TreeGet(post, post.nodes[b].id) = Some(b)
           /\ \A c \in 1..Len(post.nodes) :
                 (c \notin reach /\ post.nodes[c].id \notin ids)
                    => TreeGet(post, post.nodes[c].id) = None

C20_IndexRebuiltAfterReplace == [][C20_Step]_vars

\* C24: update(id, status=s) on a node of an acyclic tree of the volatile
\* backend returns without error for each of todo, in_progress, done and
\* cancelled, sets the node's status to s and leaves its close_reason as it
\* was.
C24_Step ==
    (/\ last'.op = "update_task"
     /\ n_updates' = n_updates + 1
     /\ backend = "memory"
     /\ last'.exc # "KeyError"
     /\ \E s \in StatusValues : last'.args.kwargs = [status |-> Some(TaskStatus(s))]
     /\ ~Visit(trees[last'.tree_id].nodes, trees[last'.tree_id].root, {}).raised)
    => LET a == trees[last'.tree_id].index[last'.task_id]
       IN  /\ last'.exc = "None"
           /\ trees'[last'.tree_id].nodes[a].status = last'.args.kwargs.status[1]
           /\ trees'[last'.tree_id].nodes[a].close_reason
                 = trees[last'.tree_id].nodes[a].close_reason

C24_UpdateBypassesCloseCheck == [][C24_Step]_vars

\* C24 witness: update(id, status=todo or in_progress) has returned on a node
\* closed before with a reason: the node is open and carries the reason.
C24_Witness ==
    /\ backend = "memory"
    /\ last.op = "update_task"
    /\ last.exc = "None"
    /\ last.tree_id \in DOMAIN trees
    /\ last.task_id \in DOMAIN trees[last.tree_id].index
    /\ LET n == trees[last.tree_id].nodes[trees[last.tree_id].index[last.task_id]]
       IN  /\ n.status \in {TaskStatus("todo"), TaskStatus("in_progress")}
           /\ last.args.kwargs = [status |-> Some(n.status)]
           /\ n.close_reason = Some("shipped")

\* C25: TaskTree.close with an id that is no key of the index raises nothing
\* and changes nothing, whatever the status: no tree, no node, no index.
C25_Step ==
    (/\ last'.op = "close"
     /\ n_closes' = n_closes + 1
     /\ last'.task_id \notin DOMAIN trees[last'.tree_id].index)
    => (last'.exc = "None" /\ trees' = trees /\ docs' = docs)

C25_CloseOfMissingIdDoesNothing == [][C25_Step]_vars

\* C25 witness: close(id, todo, reason) has returned without error for an id
\* that is not in the index of a tree holding two nodes or more.
C25_Witness ==
    /\ last.op = "close"
    /\ last.exc = "None"
    /\ last.args.status = TaskStatus("todo")
    /\ last.tree_id \in DOMAIN trees
    /\ last.task_id \notin DOMAIN trees[last.tree_id].index
    /\ Len(trees[last.tree_id].nodes) >= 2

\* C26: get_task and list_trees, whether they return or raise, leave the
\* store as it was in both backends: the same trees, nodes and indexes, the
\* same documents.
C26_Step ==
    last'.op \in {"get_task", "list_trees"}
    => (trees' = trees /\ docs' = docs /\ tree_counter' = tree_counter
        /\ next_oid' = next_oid)

C26_ReadsArePure == [][C26_Step]_vars

\* C26 witness: get_task has returned the dict of a task that has a subtask.
C26_Witness ==
    /\ last.op = "get_task"
    /\ last.exc = "None"
    /\ last.ret.task.subtasks # <<>>

\* The ids of the subtasks of the node found under id, in list order.
ChildIdSeq(tree, id) ==
    LET subs == tree.nodes[tree.index[id]].subtasks
    IN  [i \in 1..Len(subs) |-> tree.nodes[subs[i]].id]

\* Ids are handed out in the order of creation.
InCreationOrder(ids) == \A i \in 1..Len(ids), j \in 1..Len(ids) : i < j => ids[i] < ids[j]

\* C27: when only create_task, add_subtask and delete_task are called, in
\* either backend every node's subtasks list holds its children in the
\* order of their creation; a create appends the new child at the end of
\* its parent's list and changes no other list; a delete of a task that has
\* a parent takes that task out of the parent's list, keeps the order of the
\* others and changes no other list.
C27_Step ==
    /\ \A t \in TreeIdInputs' :
          StoreHas(trees', docs', t)
             => \A id \in DOMAIN StoreTree(trees', docs', t).index :
                   InCreationOrder(ChildIdSeq(StoreTree(trees', docs', t), id))
    /\ (last'.op \in {"create_task", "add_subtask"} /\ last'.exc = "None")
       => LET pre == StoreTree(trees, docs, last'.tree_id)
              post == StoreTree(trees', docs', last'.tree_id)
          IN  \A id \in DOMAIN pre.index :
                 ChildIdSeq(post, id) =
                    IF id = last'.task_id
                    THEN Append(ChildIdSeq(pre, id), last'.ret.id)
                    ELSE ChildIdSeq(pre, id)
    /\ (/\ last'.op = "delete_task"
        /\ last'.exc = "None"
        /\ StoreHas(trees, docs, last'.tree_id)
        /\ TreeGet(StoreTree(trees, docs, last'.tree_id), last'.task_id) # None
        /\ StoreTree(trees, docs, last'.tree_id).nodes[
              TreeGet(StoreTree(trees, docs, last'.tree_id), last'.task_id)[1]].parent
                 # None)
       => LET pre == StoreTree(trees, docs, last'.tree_id)
              post == StoreTree(trees', docs', last'.tree_id)
              gone == last'.task_id
              p == pre.nodes[pre.nodes[pre.index[gone]].parent[1]].id
              Keep(i) == i # gone
          IN  \A id \in DOMAIN post.index :
                 ChildIdSeq(post, id) =
                    IF id = p THEN SelectSeq(ChildIdSeq(pre, id), Keep)
                    ELSE ChildIdSeq(pre, id)

C27_ChildOrderIsCreationOrder == [][C27_Step]_vars

\* C27 witness: a task that was neither the last nor the only child of its
\* parent has been deleted, and two children created before and after it
\* are left in the parent's list.
C27_Witness ==
    /\ last.op = "delete_task"
    /\ last.exc = "None"
    /\ StoreHas(trees, docs, last.tree_id)
    /\ \E id \in DOMAIN StoreTree(trees, docs, last.tree_id).index :
          LET kids == ChildIdSeq(StoreTree(trees, docs, last.tree_id), id)
          IN  /\ Len(kids) = 2
              /\ kids[1] < last.task_id
              /\ last.task_id < kids[2]
              /\ [tree_id |-> last.tree_id, id |-> last.task_id, parent_id |-> id]
                    \in returned

\* C28: add_subtask that returns creates one node: status todo, no
\* close_reason, no subtasks, the description, dod, deadline and assignee
\* given, the addressed node as parent.  The parent's subtasks list gets the
\* new node at its end, the index gets the entry of the new id, and every
\* node there was keeps all its other fields.
C28_Step ==
    (last'.op = "add_subtask" /\ last'.exc = "None")
    => LET pre == trees[last'.tree_id]
           post == trees'[last'.tree_id]
           p == pre.index[last'.task_id]
           n == Len(pre.nodes) + 1
           id == last'.ret.id
       IN  /\ Len(post.nodes) = n
           /\ post.nodes[n] =
                 [description |-> last'.args.desc, dod |-> last'.args.dod,
                  status |-> TaskStatus("todo"), id |-> id, parent |-> Some(p),
                  subtasks |-> <<>>, close_reason |-> None,
                  deadline |-> last'.args.deadline,
                  assignee |-> last'.args.assignee]
           /\ \A b \in 1..Len(pre.nodes) :
                 post.nodes[b] =
                    IF b = p THEN [pre.nodes[b] EXCEPT !.subtasks = Append(@, n)]
                    ELSE pre.nodes[b]
           /\ id \notin DOMAIN pre.index
           /\ DOMAIN post.index = DOMAIN pre.index \cup {id}
           /\ post.index[id] = n
           /\ \A k \in DOMAIN pre.index : post.index[k] = pre.index[k]
           /\ post.root = pre.root

C28_AddSubtaskFrame == [][C28_Step]_vars

\* C28 witness: add_subtask("b", "e", deadline, assignee) has returned for a
\* parent that is not the root and already had a subtask.
C28_Witness ==
    /\ last.op = "add_subtask"
    /\ last.exc = "None"
    /\ last.args.assignee = Some("u")
    /\ last.tree_id \in DOMAIN trees
    /\ LET tree == trees[last.tree_id]
       IN  /\ last.task_id \in DOMAIN tree.index
           /\ tree.index[last.task_id] # tree.root
           /\ Len(tree.nodes[tree.index[last.task_id]].subtasks) = 2
           /\ tree.nodes[tree.index[last.ret.id]].assignee = Some("u")

\* Whether create_task, get_task, update_task and delete_task on tree t all
\* raise KeyError naming the tree.
TaskCallsFindNoTree(trs, ds, t, i) ==
    IF backend = "memory"
    THEN /\ MemCreateTaskOp(trs, t, i, "a", "d", None, None, next_uuid).names = "tree"
         /\ MemGetTaskOp(trs, t, i).names = "tree"
         /\ MemUpdateTaskOp(trs, t, i, [description |-> Some("X")]).names = "tree"
         /\ MemDeleteTaskOp(trs, t, i).names = "tree"
    ELSE /\ MongoCreateTaskOp(ds, t, i, "a", "d", None, None, next_uuid).names = "tree"
         /\ MongoGetTaskOp(ds, t, i).names = "tree"
         /\ MongoUpdateTaskOp(ds, t, i, [description |-> Some("X")], next_uuid).names
               = "tree"
         /\ MongoDeleteTaskOp(ds, t, i).names = "tree"

\* C29: delete_tree on a tree the store holds removes that tree and no other;
\* afterwards the task-scoped calls and a second delete_tree on its id raise
\* KeyError naming the tree.  delete_tree on an id the store does not hold
\* raises KeyError naming the tree and removes nothing.
C29_Step ==
    last'.op = "delete_tree"
    => LET t == last'.tree_id
       IN  IF StoreHas(trees, docs, t)
           THEN /\ last'.exc = "None"
                /\ ~StoreHas(trees', docs', t)
                /\ \A u \in (DOMAIN trees \cup DOMAIN docs) \ {t} :
                      /\ u \in DOMAIN trees => (u \in DOMAIN trees' /\ trees'[u] = trees[u])
                      /\ u \in DOMAIN docs => (u \in DOMAIN docs' /\ docs'[u] = docs[u])
                /\ \A i \in TaskIdInputs : TaskCallsFindNoTree(trees', docs', t, i)
                /\ IF backend = "memory" THEN t \notin DOMAIN trees'
                   ELSE MongoDeleteTreeOp(docs', t).names = "tree"
           ELSE /\ last'.exc = "KeyError"
                /\ last'.names = "tree"
                /\ trees' = trees
                /\ docs' = docs

C29_DeleteTreeRemovesTree == [][C29_Step]_vars

\* The ids that occur in a serialized task.
RECURSIVE DictIds(_)
DictIds(data) ==
    {data.id} \cup UNION {DictIds(data.subtasks[i]) : i \in 1..Len(data.subtasks)}

\* The index and the links of a tree as from_dict builds it from data.
FromDictIsValid(data) ==
    LET tree == TreeFromDict(data)
        nodes == tree.nodes
    IN  /\ \A id \in DictIds(data) :
              /\ TreeGet(tree, id) # None
              /\ nodes[TreeGet(tree, id)[1]].id = id
        /\ nodes[tree.root].parent = None
        /\ Reachable(nodes, tree.root) = 1..Len(nodes)
        /\ \A a \in (1..Len(nodes)) \ {tree.root} :
              /\ nodes[a].parent # None
              /\ \E i \in 1..Len(nodes[nodes[a].parent[1]].subtasks) :
                    nodes[nodes[a].parent[1]].subtasks[i] = a

\* C30: for every serialized tree (a saved document, or the to_dict of a
\* tree the volatile backend holds), the tree TaskTree.from_dict builds
\* finds a node under every id of the data, its root has no parent, and
\* every other node has as parent the node whose subtasks list holds it.
C30_FromDictBuildsValidTree ==
    /\ \A t \in DOMAIN docs : FromDictIsValid(docs[t].tree)
    /\ \A t \in DOMAIN trees :
          ToDictExc(trees[t].nodes, trees[t].root) = "None"
             => FromDictIsValid(TreeToDict(trees[t]))

\* C30 witness: a saved document three levels deep.
C30_Witness ==
    \E t \in DOMAIN docs :
        /\ Len(docs[t].tree.subtasks) >= 1
        /\ Len(docs[t].tree.subtasks[1].subtasks) >= 1

\* C21: when the save of a create_task or update_task call succeeds, the
\* stored tree holds exactly the tasks of the tree that call had loaded (with
\* the task it added itself): a task another call stored after that load,
\* whose create_task returned its id, is no longer found by get_task.
C21_Step ==
    \A p \in Procs :
        ( /\ procs[p].pc = "loaded"
          /\ procs'[p].pc = "done"
          /\ procs'[p].exc = "None"
          /\ procs[p].op \in {"create_task", "update_task"} )
        => LET t == procs[p].tree_id
               held == DOMAIN procs[p].tree[1].index
           IN  /\ DictIds(docs'[t].tree) = held
               /\ procs[p].op = "create_task" =>
                     MongoGetTaskOp(docs', t, procs'[p].ret.id).exc = "None"
               /\ \A r \in returned :
                     r.tree_id = t /\ r.id \notin held =>
                        MongoGetTaskOp(docs', t, r.id).exc = "KeyError"

C21_SaveOverwritesWithLoadedTree == [][C21_Step]_vars

\* C21 witness: the only calls made are create_task calls, two of them
\* returned an id for the same stored tree, and get_task finds one of the
\* ids and not the other.
C21_Witness ==
    /\ \A p \in Procs : procs[p].pc # "idle" =>
          procs[p].pc = "done" /\ procs[p].op = "create_task"
    /\ \E p, q \in Procs :
          /\ p # q
          /\ procs[p].pc = "done" /\ procs[p].exc = "None"
          /\ procs[q].pc = "done" /\ procs[q].exc = "None"
          /\ procs[p].tree_id = procs[q].tree_id
          /\ procs[p].tree_id \in DOMAIN docs
          /\ MongoGetTaskOp(docs, procs[p].tree_id, procs[p].ret.id).exc = "None"
          /\ MongoGetTaskOp(docs, procs[q].tree_id, procs[q].ret.id).exc = "KeyError"

\* Two calls that stood at an await at the same time.
Overlap(p, q) == p \in procs[q].pending \/ q \in procs[p].pending

\* The tree t holds, under its root, a task with this id.
HoldsTask(trs, t, id) ==
    /\ t \in DOMAIN trs
    /\ \E a \in Reachable(trs[t].nodes, trs[t].root) : trs[t].nodes[a].id = id

\* C22 (as the code has it): in the volatile backend a get_task that is
\* resumed, whatever calls it races with, finds every task the tree holds
\* under its root: it never fails with not-found for such a task.
C22_Step ==
    \A p \in Procs :
        ( /\ procs[p].pc = "suspended"
          /\ procs'[p].pc = "done"
          /\ procs[p].op = "get_task"
          /\ HoldsTask(trees, procs[p].tree_id, procs[p].task_id) )
        => procs'[p].exc # "KeyError"

SerialOutcome(trs, counter, uuid, c) ==
    CASE c.op = "create_tree" ->
           [exc |-> "None",
            trees |-> DictSet(trs, counter + 1, NewTaskTree(
                <<Task(c.args.name, "Root", uuid, None, None, None)>>, 1))]
      [] c.op = "delete_tree" ->
           IF c.tree_id \in DOMAIN trs
           THEN [exc |-> "None", trees |-> DictPop(trs, c.tree_id)]
           ELSE [exc |-> "KeyError", trees |-> trs]
      [] c.op = "list_trees" -> [exc |-> "None", trees |-> trs]
      [] c.op = "create_task" ->
           LET r == MemCreateTaskOp(trs, c.tree_id, c.task_id, "a", "d",
                                    None, None, uuid)
           IN  [exc |-> r.exc, trees |-> r.trees]
      [] c.op = "get_task" ->
           [exc |-> MemGetTaskOp(trs, c.tree_id, c.task_id).exc, trees |-> trs]
      [] c.op = "update_task" ->
           LET r == MemUpdateTaskOp(trs, c.tree_id, c.task_id, c.args.kwargs)
           IN  [exc |-> r.exc, trees |-> r.trees]
      [] c.op = "delete_task" ->
           LET r == MemDeleteTaskOp(trs, c.tree_id, c.task_id)
           IN  [exc |-> r.exc, trees |-> r.trees]

\* C23: a call of the volatile backend stands at one await only, reached
\* before it has read or written the store; the step that resumes it does to
\* the store what the same call does when it runs alone on that store (the
\* steps of a concurrent run are the calls, one after another); and every
\* call that sleeps is resumed and returns or raises: again and again no
\* call is left sleeping, so each call that slept before has returned or
\* raised by then.
C23_Step ==
    \A p \in Procs :
        /\ procs[p].pc = "idle" => procs'[p].pc \in {"idle", "suspended"}
        /\ procs[p].pc = "suspended" => procs'[p].pc \in {"suspended", "done"}
        /\ procs[p].pc = "done" => procs'[p] = procs[p]
        /\ procs'[p].pc = procs[p].pc => procs'[p] = procs[p]
        /\ (procs[p].pc = "idle" /\ procs'[p].pc = "suspended") =>
              UNCHANGED <<trees, tree_counter, next_uuid>>
        /\ (procs[p].pc = "suspended" /\ procs'[p].pc = "done") =>
              LET s == SerialOutcome(trees, tree_counter, next_uuid, procs[p])
              IN  /\ trees' = s.trees
                  /\ procs'[p].exc = s.exc
                  /\ \A q \in Procs \ {p} : procs'[q] = procs[q]

C23_CallsAreAtomicAndComplete ==
    /\ [][C23_Step]_vars
    /\ []<>(\A p \in Procs : procs[p].pc # "suspended")

\* C23 witness: two create_task calls under the same parent were pending
\* together, both returned an id, and the parent holds both tasks.
C23_Witness ==
    \E p, q \in Procs :
        /\ p # q
        /\ Overlap(p, q)
        /\ procs[p].pc = "done" /\ procs[p].op = "create_task"
        /\ procs[q].pc = "done" /\ procs[q].op = "create_task"
        /\ procs[p].exc = "None" /\ procs[q].exc = "None"
        /\ procs[p].tree_id = procs[q].tree_id
        /\ procs[p].task_id = procs[q].task_id
        /\ HoldsTask(trees, procs[p].tree_id, procs[p].ret.id)
        /\ HoldsTask(trees, procs[q].tree_id, procs[q].ret.id)

\* get_task with the id of r does not fail with not-found in the store trs.
StillFound(trs, r) ==
    /\ r.tree_id \in DOMAIN trs
    /\ TreeGet(trs[r.tree_id], r.id) # None

\* The node the index of tree holds under id, and the nodes it hangs under.
SelfAndAncestors(tree, id) ==
    {b \in 1..Len(tree.nodes) : tree.index[id] \in Reachable(tree.nodes, b)}

\* The step is one of the calls that may take the task of r away: delete_task
\* on it or on a node above it, a call that deletes its tree, update_task
\* replacing a subtasks list that holds it or a node above it.
MayRemove(r) ==
    LET tree == trees[r.tree_id]
        above == SelfAndAncestors(tree, r.id)
    IN  /\ last'.tree_id = r.tree_id
        /\ \/ r.tree_id \notin DOMAIN trees'
           \/ /\ last'.op = "delete_task"
              /\ \E b \in above : tree.nodes[b].id = last'.task_id
           \/ /\ last'.op = "update_task"
              /\ "subtasks" \in DOMAIN last'.args.kwargs
              /\ last'.args.kwargs.subtasks # None
              /\ TreeGet(tree, last'.task_id) # None
              /\ \E i \in 1..Len(tree.nodes[TreeGet(tree, last'.task_id)[1]].subtasks) :
                    tree.nodes[TreeGet(tree, last'.task_id)[1]].subtasks[i] \in above

\* C31: in the volatile backend, a task whose id create_task returned and
\* that get_task finds is still found after every step other than a
\* delete_task on it or on an ancestor, the deletion of its tree, or an
\* update_task replacing a subtasks list that holds it or an ancestor; and
\* create_task succeeds only under a parent reachable from the root.
C31_Step ==
    backend = "memory" =>
        /\ \A r \in returned :
              (StillFound(trees, r) /\ ~MayRemove(r)) => StillFound(trees', r)
        /\ (last'.op = "create_task" /\ last'.exc = "None") =>
              TreeGet(trees[last'.tree_id], last'.task_id)[1]
                 \in Reachable(trees[last'.tree_id].nodes, trees[last'.tree_id].root)

C31_CreatedTasksStayFound == [][C31_Step]_vars

\* The tree ids the active backend holds.
StoreKeys(trs, ds) == IF backend = "memory" THEN DOMAIN trs ELSE DOMAIN ds

\* The tree ids create_tree has returned so far.
CreatedIds == {created[j].id : j \in 1..Len(created)}

\* C32: in both backends a tree enters the store by create_tree only and
\* leaves it by delete_tree or delete_task on it only, and list_trees returns
\* one entry for each tree of the store, with the name create_tree was given
\* for it, whatever update_task did to its root.
C32_Step ==
    /\ \A t \in StoreKeys(trees', docs') \ StoreKeys(trees, docs) :
          last'.op = "create_tree" /\ last'.tree_id = t
    /\ \A t \in StoreKeys(trees, docs) \ StoreKeys(trees', docs') :
          last'.op \in {"delete_tree", "delete_task"} /\ last'.tree_id = t
    /\ last'.op = "list_trees" =>
          LET ret == last'.ret.trees
          IN  /\ Len(ret) = Cardinality(StoreKeys(trees, docs))
              /\ {ret[i].id : i \in 1..Len(ret)} = StoreKeys(trees, docs)
              /\ \A i \in 1..Len(ret) :
                    \E j \in 1..Len(created) :
                        created[j].id = ret[i].id /\ created[j].name = ret[i].name

C32_ListTreesGivesCreationNames == [][C32_Step]_vars

\* The tree u as the active backend stores it.
Stored(trs, ds, u) == IF backend = "memory" THEN trs[u] ELSE ds[u]

\* C33: a create_task, update_task, delete_task or get_task call addressed to
\* a tree, whether it returns or raises, leaves every other tree in the
\* store, with the same nodes, fields and index.
C33_Step ==
    last'.op \in {"create_task", "update_task", "delete_task", "get_task"} =>
        \A u \in StoreKeys(trees, docs) \ {last'.tree_id} :
            /\ u \in StoreKeys(trees', docs')
            /\ Stored(trees', docs', u) = Stored(trees, docs, u)

C33_OtherTreesUntouched == [][C33_Step]_vars

\* C33 witness: delete_task has just removed a root, and with it its tree,
\* from a volatile store that still holds another tree with a task under its
\* root.
C33_Witness ==
    /\ backend = "memory"
    /\ last.op = "delete_task"
    /\ last.exc = "None"
    /\ last.tree_id \in CreatedIds \ DOMAIN trees
    /\ \E u \in DOMAIN trees : Len(trees[u].nodes) >= 2

\* C34: in the volatile backend create_tree returns an id that no earlier
\* create_tree call returned, whether or not the trees of those calls are
\* still in the store, and the tree counter never decreases.
C34_Step ==
    backend = "memory" =>
        /\ tree_counter' >= tree_counter
        /\ last'.op = "create_tree" =>
              /\ last'.ret.id \notin CreatedIds
              /\ last'.ret.id \notin DOMAIN trees
              /\ last'.ret.id \in DOMAIN trees'

C34_TreeIdsNeverReused == [][C34_Step]_vars

\* C34 witness: create_tree has just returned the id of a second tree after
\* the first tree was deleted.
C34_Witness ==
    /\ backend = "memory"
    /\ last.op = "create_tree"
    /\ Len(created) >= 2
    /\ created[1].id \notin DOMAIN trees
    /\ last.ret.id # created[1].id

====
